---- MODULE Spec2Model ----
(***************************************************************************)
(* A model of the Asuna bot: the tool-calling loop processUserQueryWithLLM *)
(* and the provisioning monitor monitorServerInstallationAndStartup of the *)
(* LLM service, over the Pterodactyl gateway functions they call.          *)
(*                                                                         *)
(* Strings that the code inspects (identifiers, names, queries, the        *)
(* environment's numeric ids) are sequences of one-character strings, so   *)
(* that toLowerCase, includes and parseInt are computed; strings the code  *)
(* only passes along are TLA+ strings.  An optional value (undefined, null *)
(* or NaN in the code) is the empty sequence <<>>, a present one <<v>>.    *)
(***************************************************************************)
EXTENDS Integers, Sequences, FiniteSets, TLC

VARIABLES
    env,              \* process.env as read at module load: read-only afterwards
    pc,               \* position of the orchestrator run
    userQuery,        \* the utterance of the run
    messages,         \* the conversation of the run
    responseMessage,  \* the reasoning engine's latest message
    iterationCount,   \* the loop counter of processUserQueryWithLLM
    toolIndex,        \* position of the for-loop over responseMessage.tool_calls
    llmCalls,         \* number of openai.chat.completions.create calls made
    last,             \* what the latest engine call, or the tool invocation dispatched last since, did
    result,           \* the string the run returned
    mon,              \* the provisioning monitor's task
    handler,          \* the Events.MessageCreate handler's invocation for the message of the run
    parked,           \* the handler, run and monitor of another message, while they await
    panel             \* the panel's allocations on the default node and the create requests it received

runVars == <<pc, userQuery, messages, responseMessage, iterationCount, toolIndex, llmCalls, last, result>>

vars == <<env, pc, userQuery, messages, responseMessage, iterationCount, toolIndex, llmCalls, last, result, mon,
          handler, parked, panel>>

(***************************************************************************)
(* Bounds of the model and constants of the program.                       *)
(***************************************************************************)
MaxBatch == 2

maxIterations == 5

monitoringTimeoutMs == 600000

initialPollDelayMs == 15000

resourcePollDelayMs == 10000

(***************************************************************************)
(* Strings.                                                                *)
(***************************************************************************)
None == <<>>

Some(v) == <<v>>

UpperChars == <<"A", "B", "C", "M", "P", "V">>

LowerChars == <<"a", "b", "c", "m", "p", "v">>

LowerChar(c) ==
    IF \E k \in 1..Len(UpperChars) : UpperChars[k] = c
    THEN LowerChars[CHOOSE k \in 1..Len(UpperChars) : UpperChars[k] = c]
    ELSE c

toLowerCase(s) == [k \in 1..Len(s) |-> LowerChar(s[k])]

includes(s, q) ==
    \E k \in 0..(Len(s) - Len(q)) : SubSeq(s, k + 1, k + Len(q)) = q

DigitChars == <<"0", "1", "2", "3", "4", "5", "6", "7", "8", "9">>

IsDigit(c) == \E k \in 1..Len(DigitChars) : DigitChars[k] = c

DigitValue(c) == (CHOOSE k \in 1..Len(DigitChars) : DigitChars[k] = c) - 1

RECURSIVE ParseDigits(_, _)
\* The value of the longest prefix of digits of s, acc being the value read so far.
ParseDigits(s, acc) ==
    IF s = <<>> \/ ~IsDigit(Head(s))
    THEN acc
    ELSE ParseDigits(Tail(s), acc * 10 + DigitValue(Head(s)))

\* parseInt(s, 10): NaN (None) unless s starts with a digit; what follows the digits is ignored.
parseInt(s) ==
    IF s = <<>> \/ ~IsDigit(Head(s)) THEN None ELSE Some(ParseDigits(s, 0))

(***************************************************************************)
(* Configuration: PTERO_DEFAULT_OWNER_ID and PTERO_DEFAULT_NODE_ID.        *)
(***************************************************************************)
ParseDefaultId(str) == IF str = <<>> THEN None ELSE parseInt(str)

PTERO_DEFAULT_OWNER_ID == ParseDefaultId(env.PTERODACTYL_DEFAULT_OWNER_ID)

PTERO_DEFAULT_NODE_ID == ParseDefaultId(env.PTERODACTYL_DEFAULT_NODE_ID)

\* JavaScript truthiness of an optional number: undefined and 0 are falsy.
Truthy(opt) == opt # None /\ opt[1] # 0

EnvStrings == {<<>>, <<"x">>, <<"0">>, <<"7">>, <<"7", "x">>}

Environments ==
    [PTERODACTYL_DEFAULT_OWNER_ID : EnvStrings,
     PTERODACTYL_DEFAULT_NODE_ID : EnvStrings,
     OPENAI_API_KEY : BOOLEAN,
     client : BOOLEAN,
     app : BOOLEAN]

(***************************************************************************)
(* The Pterodactyl gateway.  The panel is outside the program: each        *)
(* function below is the set of results a call can return, a result being  *)
(* [http, ok, data]: whether a request was issued, whether it succeeded,   *)
(* and the value handed back to the caller.                                *)
(***************************************************************************)
SrvA == [identifier |-> <<"a">>, uuid |-> "uuid-a", name |-> <<"A", "b">>, is_installing |-> FALSE]

SrvB == [identifier |-> <<"b">>, uuid |-> "uuid-b", name |-> <<"a", "b", "c">>, is_installing |-> FALSE]

Listings == {<<>>, <<SrvA, SrvB>>}

ResourceStates == {"running", "offline", "starting", "stopping"}

PowerSignals == {"start", "stop", "restart", "kill"}

\* A call of a gateway function: its name, whether it issued a request, its arguments, and, for
\* getEggDetails, findAvailableAllocation, createServer, the listServers of resolveServerId and
\* the calls of getServersWithOnlineStatus, what it returned.
CallOf(op, http, id, signal, options) ==
    [op |-> op, http |-> http, id |-> id, signal |-> signal, options |-> options, returned |-> <<>>]

Returning(call, data) == [call EXCEPT !.returned = data]

Call(op, http, id) == CallOf(op, http, id, "", <<>>)

\* A variant of listServers: the request issued whether the client API is configured or not.
listServersUnguarded ==
    {[http |-> TRUE, ok |-> FALSE, data |-> <<>>]}
    \cup {[http |-> TRUE, ok |-> TRUE, data |-> l] : l \in Listings}

\* listServers(): [] without a request when the client API is not configured, [] when the request fails.
listServers ==
    IF ~env.client
    THEN {[http |-> FALSE, ok |-> FALSE, data |-> <<>>]}
    ELSE {[http |-> TRUE, ok |-> FALSE, data |-> <<>>]}
         \cup {[http |-> TRUE, ok |-> TRUE, data |-> l] : l \in Listings}

\* getServerResources(serverId): null (None) without a request when unconfigured or the id is empty.
getServerResources(serverId) ==
    IF ~env.client \/ serverId = <<>>
    THEN {[http |-> FALSE, ok |-> FALSE, data |-> None]}
    ELSE {[http |-> TRUE, ok |-> FALSE, data |-> None]}
         \cup {[http |-> TRUE, ok |-> TRUE, data |-> Some(st)] : st \in ResourceStates}

\* sendPowerSignal(serverId, signal): false without a request when unconfigured, the id is empty or the signal invalid.
sendPowerSignal(serverId, signal) ==
    IF ~env.client \/ serverId = <<>> \/ signal \notin PowerSignals
    THEN {[http |-> FALSE, ok |-> FALSE, data |-> FALSE]}
    ELSE {[http |-> TRUE, ok |-> FALSE, data |-> FALSE], [http |-> TRUE, ok |-> TRUE, data |-> TRUE]}

\* The calls getServersWithOnlineStatus makes for the servers of a listing, one result each.
RECURSIVE StatusRuns(_)
StatusRuns(servers) ==
    IF servers = <<>>
    THEN {[calls |-> <<>>, data |-> <<>>]}
    ELSE {[calls |-> <<Returning(Call("getServerResources", r.http, Head(servers).identifier), r.data)>>
                      \o rest.calls,
           data |-> <<[name |-> Head(servers).name,
                       identifier |-> Head(servers).identifier,
                       current_state |-> IF r.data # None THEN r.data[1] ELSE "unknown"]>> \o rest.data] :
             r \in getServerResources(Head(servers).identifier), rest \in StatusRuns(Tail(servers))}

\* A variant of getServersWithOnlineStatus: the loop left after the first server.
getServersWithOnlineStatusOfFirst ==
    IF ~env.client
    THEN {[calls |-> <<>>, ok |-> FALSE, data |-> <<>>]}
    ELSE UNION {{[calls |-> <<Returning(Call("listServers", ls.http, None), ls.data)>> \o run.calls,
                  ok |-> ls.ok, data |-> run.data] :
                    run \in StatusRuns(IF ls.data = <<>> THEN <<>> ELSE <<Head(ls.data)>>)} : ls \in listServers}

\* getServersWithOnlineStatus(): the listing, then the resources of each server in listing order.
getServersWithOnlineStatus ==
    IF ~env.client
    THEN {[calls |-> <<>>, ok |-> FALSE, data |-> <<>>]}
    ELSE UNION {{[calls |-> <<Returning(Call("listServers", ls.http, None), ls.data)>> \o run.calls,
                  ok |-> ls.ok, data |-> run.data] :
                    run \in StatusRuns(ls.data)} : ls \in listServers}

EggVa == [id |-> 1, name |-> <<"V", "a">>]

EggPa == [id |-> 2, name |-> <<"p", "a">>]

EggVa2 == [id |-> 3, name |-> <<"v", "a">>]

NestMc == [id |-> 1, name |-> <<"M", "c">>, eggs |-> <<EggPa, EggVa>>]

NestSg == [id |-> 2, name |-> <<"s", "g">>, eggs |-> <<EggVa2>>]

Catalogs == {<<>>, <<NestMc, NestSg>>}

\* listNestsWithEggs(): [] without a request when the application API is not configured.
listNestsWithEggs ==
    IF ~env.app
    THEN {[http |-> FALSE, ok |-> FALSE, data |-> <<>>]}
    ELSE {[http |-> TRUE, ok |-> FALSE, data |-> <<>>]}
         \cup {[http |-> TRUE, ok |-> TRUE, data |-> c] : c \in Catalogs}

Variable(k, v) == [env_variable |-> k, default_value |-> v]

VariableLists == {<<>>, <<Variable("K1", "d1")>>, <<Variable("K1", "d1"), Variable("K2", "d2")>>}

EggDetails(egg, variables) ==
    [id |-> egg.id, name |-> egg.name, docker_image |-> "image", startup |-> "startup", variables |-> variables]

\* getEggDetails(nestId, eggId) for the egg found in the listing: null when unconfigured, an id is 0 or the request fails.
getEggDetails(nest, egg) ==
    IF ~env.app \/ nest.id = 0 \/ egg.id = 0
    THEN {[http |-> FALSE, ok |-> FALSE, data |-> None]}
    ELSE {[http |-> TRUE, ok |-> FALSE, data |-> None]}
         \cup {[http |-> TRUE, ok |-> TRUE, data |-> Some(EggDetails(egg, vs))] : vs \in VariableLists}

Allocation(id, assigned) == [id |-> id, assigned |-> assigned]

AllocationLists ==
    {<<>>,
     <<Allocation(1, TRUE)>>,
     <<Allocation(1, TRUE), Allocation(2, FALSE), Allocation(3, FALSE)>>}

\* A variant of FirstUnassigned: the first allocation of the listing, assigned or not.
FirstAllocation(allocations) ==
    IF allocations # <<>> THEN Some(allocations[1]) ELSE None

\* allocations.find(alloc => !alloc.attributes.assigned)
FirstUnassigned(allocations) ==
    IF \E k \in 1..Len(allocations) : ~allocations[k].assigned
    THEN Some(allocations[CHOOSE k \in 1..Len(allocations) :
                 /\ ~allocations[k].assigned
                 /\ \A j \in 1..(k - 1) : allocations[j].assigned])
    ELSE None

\* findAvailableAllocation(nodeId): null when unconfigured, nodeId is 0, the request fails or nothing is free.
findAvailableAllocation(nodeId) ==
    IF ~env.app \/ nodeId = 0
    THEN {[http |-> FALSE, ok |-> FALSE, data |-> None]}
    ELSE {[http |-> TRUE, ok |-> FALSE, data |-> None]}
         \cup {[http |-> TRUE, ok |-> TRUE, data |-> FirstUnassigned(l)] : l \in AllocationLists}

CreatedServer(name) == [uuid |-> "uuid-n", identifier |-> <<"n">>, name |-> name]

\* A variant of ValidCreationOptions: the default allocation not tested.
ValidCreationOptionsButAllocation(options) ==
    /\ options.name # None /\ options.name[1] # <<>>
    /\ options.user # 0
    /\ options.egg # 0
    /\ options.docker_image # ""
    /\ options.startup # ""

\* The validation of createServer: every required option present and not zero or empty.
ValidCreationOptions(options) ==
    /\ options.name # None /\ options.name[1] # <<>>
    /\ options.user # 0
    /\ options.egg # 0
    /\ options.docker_image # ""
    /\ options.startup # ""
    /\ options.allocation.default # 0

\* createServer(options): null without a request when unconfigured or an option is missing.
createServer(options) ==
    IF ~env.app \/ ~ValidCreationOptions(options)
    THEN {[http |-> FALSE, ok |-> FALSE, data |-> None]}
    ELSE {[http |-> TRUE, ok |-> FALSE, data |-> None],
          [http |-> TRUE, ok |-> TRUE, data |-> Some(CreatedServer(options.name[1]))]}

(***************************************************************************)
(* Tool invocations and their dispatch (the body of the for-loop over      *)
(* responseMessage.tool_calls).  An invocation is [name, args]; args holds *)
(* what JSON.parse(toolCall.function.arguments) yields, parses being FALSE *)
(* when JSON.parse throws.  Each tool is the set of outcomes its dispatch  *)
(* can have: [fail, content, calls, monitor], content being the payload of *)
(* functionResponseContent, calls the gateway calls made in order, and     *)
(* monitor the monitor started, if any.                                    *)
(***************************************************************************)
NoArgs ==
    [parses |-> TRUE, serverId |-> None, signal |-> "", egg_name |-> None, nest_name |-> None,
     server_name |-> None, environment_variables |-> None]

\* The payload: error is "none" for a payload without an error field; subject and inNest are the
\* names the error message quotes.
Content(error, subject, body) ==
    [error |-> error, subject |-> subject, inNest |-> <<>>, user_message |-> FALSE, body |-> body]

Outcome(fail, content, calls) ==
    [fail |-> fail, content |-> content, calls |-> calls, monitor |-> None]

\* The catch (toolError) of the dispatch: an error payload naming the tool.
Thrown(calls) == Outcome("exception", Content("exception", <<>>, <<>>), calls)

\* Array.prototype.find: the first element of seq among those at the positions hits, the
\* positions where the test holds.
Find(seq, hits) ==
    IF hits = {} THEN None ELSE Some(seq[CHOOSE k \in hits : \A j \in hits : k <= j])

\* Variants of resolveServerId: the names consulted before the identifiers; and the first of
\* several servers matching by name taken.
resolveServerIdByNameFirst(query, allServers) ==
    LET byId == Find(allServers, {k \in 1..Len(allServers) : allServers[k].identifier = query})
        matchingByName ==
            SelectSeq(allServers, LAMBDA srv : includes(toLowerCase(srv.name), toLowerCase(query)))
    IN  IF Len(matchingByName) = 1 THEN Some(matchingByName[1].identifier)
        ELSE IF Len(matchingByName) > 1 THEN None
        ELSE IF byId # None THEN Some(byId[1].identifier)
        ELSE None

resolveServerIdFirstMatch(query, allServers) ==
    LET byId == Find(allServers, {k \in 1..Len(allServers) : allServers[k].identifier = query})
        matchingByName ==
            SelectSeq(allServers, LAMBDA srv : includes(toLowerCase(srv.name), toLowerCase(query)))
    IN  IF byId # None THEN Some(byId[1].identifier)
        ELSE IF Len(matchingByName) >= 1 THEN Some(matchingByName[1].identifier)
        ELSE None

\* resolveServerId(query) on the listing allServers: the identifier, or null (None).
resolveServerId(query, allServers) ==
    LET byId == Find(allServers, {k \in 1..Len(allServers) : allServers[k].identifier = query})
        matchingByName ==
            SelectSeq(allServers, LAMBDA srv : includes(toLowerCase(srv.name), toLowerCase(query)))
    IN  IF byId # None THEN Some(byId[1].identifier)
        ELSE IF Len(matchingByName) = 1 THEN Some(matchingByName[1].identifier)
        ELSE None

SimplifiedServers(servers) ==
    [k \in 1..Len(servers) |-> [name |-> servers[k].name, identifier |-> servers[k].identifier]]

list_pterodactyl_servers_basic_info(args) ==
    {Outcome(IF ls.ok THEN "none" ELSE "backend",
             Content("none", <<>>, SimplifiedServers(ls.data)),
             <<Call("listServers", ls.http, <<>>)>>) : ls \in listServers}

\* await resolveServerId(functionArgs.serverId) || '' in the two tools that name a server: the
\* listing call made, and the identifier resolved, if any.  Without a serverId argument the
\* resolver throws once the listing is there.
ResolvedServers(args) ==
    {[lsCall |-> Returning(Call("listServers", ls.http, <<>>), ls.data),
      ok |-> ls.ok,
      thrown |-> args.serverId = None,
      actualServerId |-> IF args.serverId = None THEN None ELSE resolveServerId(args.serverId[1], ls.data)] :
        ls \in listServers}

\* The else branch of if (actualServerId): the error payload quoting the query.
ServerNotResolved(args, rs, notFound) ==
    Outcome(IF rs.ok THEN "resolution" ELSE "backend",
            Content(notFound, args.serverId[1], <<>>),
            <<rs.lsCall>>)

IsResolved(rs) == rs.actualServerId # None /\ rs.actualServerId[1] # <<>>

get_specific_server_details_and_status(args) ==
    UNION {IF rs.thrown
           THEN {Thrown(<<rs.lsCall>>)}
           ELSE IF IsResolved(rs)
           THEN {Outcome(IF r.ok THEN "none" ELSE "backend",
                         Content("none", <<>>, r.data),
                         <<rs.lsCall, Call("getServerResources", r.http, rs.actualServerId[1])>>) :
                    r \in getServerResources(rs.actualServerId[1])}
           ELSE {ServerNotResolved(args, rs, "not_found_or_ambiguous")} :
           rs \in ResolvedServers(args)}

get_online_status_for_all_servers(args) ==
    {Outcome(IF st.ok THEN "none" ELSE "backend", Content("none", <<>>, st.data), st.calls) :
        st \in getServersWithOnlineStatus}

send_pterodactyl_power_signal(args) ==
    UNION {IF rs.thrown
           THEN {Thrown(<<rs.lsCall>>)}
           ELSE IF IsResolved(rs)
           THEN {Outcome(IF r.ok THEN "none" ELSE "backend",
                         Content("none", <<>>,
                                 <<[success |-> r.data, serverId |-> rs.actualServerId[1],
                                    signal |-> args.signal]>>),
                         <<rs.lsCall,
                           CallOf("sendPowerSignal", r.http, rs.actualServerId[1], args.signal, <<>>)>>) :
                    r \in sendPowerSignal(rs.actualServerId[1], args.signal)}
           ELSE {ServerNotResolved(args, rs, "not_found_or_ambiguous_for_power_signal")} :
           rs \in ResolvedServers(args)}

SimplifiedNests(nests) ==
    [k \in 1..Len(nests) |->
        [nest_name |-> nests[k].name,
         available_eggs |-> [j \in 1..Len(nests[k].eggs) |-> nests[k].eggs[j].name]]]

list_available_games_and_types(args) ==
    {Outcome(IF ns.ok THEN "none" ELSE "backend",
             Content("none", <<>>, SimplifiedNests(ns.data)),
             <<Call("listNestsWithEggs", ns.http, <<>>)>>) : ns \in listNestsWithEggs}

\* nestNameToFind && nest.attributes.name.toLowerCase() !== nestNameToFind
NestSkipped(nest, nestNameToFind) ==
    /\ nestNameToFind # None
    /\ nestNameToFind[1] # <<>>
    /\ toLowerCase(nest.name) # nestNameToFind[1]

\* A variant of EggInNest: includes for ===.
EggInNestBySubstring(nest, eggNameToFind) ==
    Find(nest.eggs, {k \in 1..Len(nest.eggs) : includes(toLowerCase(nest.eggs[k].name), eggNameToFind)})

\* nest.attributes.relationships?.eggs?.data.find(e => e.attributes.name.toLowerCase() === eggNameToFind)
EggInNest(nest, eggNameToFind) ==
    Find(nest.eggs, {k \in 1..Len(nest.eggs) : toLowerCase(nest.eggs[k].name) = eggNameToFind})

\* The for-loop over allNestsWithEggs up to its break: the first nest, not skipped, that holds the egg.
FindEgg(allNestsWithEggs, eggNameToFind, nestNameToFind) ==
    LET hit == Find(allNestsWithEggs,
                    {k \in 1..Len(allNestsWithEggs) :
                        /\ ~NestSkipped(allNestsWithEggs[k], nestNameToFind)
                        /\ EggInNest(allNestsWithEggs[k], eggNameToFind) # None})
    IN  IF hit = None THEN None
        ELSE Some([nest |-> hit[1], egg |-> EggInNest(hit[1], eggNameToFind)[1]])

\* The egg search shared by get_specific_egg_installation_details and create_pterodactyl_server:
\* listNestsWithEggs, the search loop, and getEggDetails for the egg found.  Each result holds
\* the calls made, the details got (if any), and the payload of the branch taken without them.
ResolvedEggs(args, notFound) ==
    UNION {LET nsCall == Call("listNestsWithEggs", ns.http, <<>>)
               hit == FindEgg(ns.data, toLowerCase(args.egg_name[1]),
                              IF args.nest_name = None THEN None ELSE Some(toLowerCase(args.nest_name[1])))
               missing ==
                   [Content(notFound, args.egg_name[1], <<>>) EXCEPT
                       !.inNest = IF args.nest_name # None /\ args.nest_name[1] # <<>>
                                  THEN args.nest_name[1] ELSE <<>>]
           IN  IF hit = None
               THEN {[calls |-> <<nsCall>>, ok |-> ns.ok, details |-> None, missing |-> missing]}
               ELSE {[calls |-> <<nsCall, Returning(Call("getEggDetails", d.http, <<>>), d.data)>>,
                      ok |-> d.ok, details |-> d.data, missing |-> missing] :
                        d \in getEggDetails(hit[1].nest, hit[1].egg)} :
           ns \in listNestsWithEggs}

\* The else branch of if (foundEgg && foundNest): the error payload naming the egg.
EggNotResolved(re) == Outcome(IF re.ok THEN "resolution" ELSE "backend", re.missing, re.calls)

get_specific_egg_installation_details(args) ==
    IF args.egg_name = None
    THEN {Thrown(<<>>)}
    ELSE {IF re.details = None
          THEN EggNotResolved(re)
          ELSE Outcome("none", Content("none", <<>>, re.details), re.calls) :
          re \in ResolvedEggs(args, "egg_not_found")}

(***************************************************************************)
(* create_pterodactyl_server.                                              *)
(***************************************************************************)
EmptyEnvironment == [k \in {} |-> ""]

\* finalEnvironment[k] = v
SetKey(environment, k, v) ==
    [x \in DOMAIN environment \cup {k} |-> IF x = k THEN v ELSE environment[x]]

RECURSIVE AssignDefaults(_, _)
\* variables.forEach(v => finalEnvironment[v.env_variable] = v.default_value)
AssignDefaults(variables, environment) ==
    IF variables = <<>>
    THEN environment
    ELSE AssignDefaults(Tail(variables),
                        SetKey(environment, Head(variables).env_variable, Head(variables).default_value))

RECURSIVE AssignOverrides(_, _, _)
\* for (const key in userProvidedEnv) finalEnvironment[key] = userProvidedEnv[key]
AssignOverrides(keys, userProvidedEnv, environment) ==
    IF keys = {}
    THEN environment
    ELSE LET key == CHOOSE k \in keys : TRUE
         IN  AssignOverrides(keys \ {key}, userProvidedEnv, SetKey(environment, key, userProvidedEnv[key]))

\* A variant of FinalEnvironment: the two assignments in the other order.
FinalEnvironmentDefaultsWin(variables, userProvidedEnv) ==
    LET overrides == IF userProvidedEnv = None THEN EmptyEnvironment ELSE userProvidedEnv[1]
    IN  AssignDefaults(variables, AssignOverrides(DOMAIN overrides, overrides, EmptyEnvironment))

\* The environment of the create request: the egg's defaults, then the user's values over them.
FinalEnvironment(variables, userProvidedEnv) ==
    LET defaults == AssignDefaults(variables, EmptyEnvironment)
    IN  IF userProvidedEnv = None
        THEN defaults
        ELSE AssignOverrides(DOMAIN userProvidedEnv[1], userProvidedEnv[1], defaults)

CreationOptions(serverName, targetEgg, availableAllocation, userProvidedEnv) ==
    [name |-> serverName,
     user |-> PTERO_DEFAULT_OWNER_ID[1],
     egg |-> targetEgg.id,
     docker_image |-> targetEgg.docker_image,
     startup |-> targetEgg.startup,
     environment |-> FinalEnvironment(targetEgg.variables, userProvidedEnv),
     limits |-> [memory |-> 2048, swap |-> 0, disk |-> 10240, io |-> 500, cpu |-> 100],
     feature_limits |-> [databases |-> 0, allocations |-> 1, backups |-> 1],
     allocation |-> [default |-> availableAllocation.id],
     start_on_completion |-> TRUE]

\* The arguments monitorServerInstallationAndStartup is started with.
MonitorFor(createdServer) ==
    [serverUuid |-> createdServer.uuid,
     serverIdentifier |-> createdServer.identifier,
     serverName |-> createdServer.name]

\* A variant of CreateAndMonitor: the monitor started before createdServer is tested.
CreateAndMonitorUntested(options, calls) ==
    {LET all == calls \o <<Returning(CallOf("createServer", c.http, <<>>, "", <<options>>), c.data)>>
         createdServer == IF c.data # None THEN c.data[1] ELSE CreatedServer(<<>>)
     IN  [fail |-> IF c.data # None THEN "none" ELSE "backend",
          content |-> IF c.data # None
                      THEN [Content("none", <<>>, <<>>) EXCEPT !.user_message = TRUE]
                      ELSE Content("create_failed", <<>>, <<>>),
          calls |-> all,
          monitor |-> Some(MonitorFor(createdServer))] :
     c \in createServer(options)}

\* createServer and what follows it: the monitor is started only for a created server.
CreateAndMonitor(options, calls) ==
    {LET all == calls \o <<Returning(CallOf("createServer", c.http, <<>>, "", <<options>>), c.data)>>
     IN  IF c.data # None
         THEN [fail |-> "none",
               content |-> [Content("none", <<>>, <<>>) EXCEPT !.user_message = TRUE],
               calls |-> all,
               monitor |-> Some(MonitorFor(c.data[1]))]
         ELSE Outcome("backend", Content("create_failed", <<>>, <<>>), all) :
     c \in createServer(options)}

\* findAvailableAllocation and what follows it.
AllocateAndCreate(args, targetEgg, calls) ==
    UNION {LET all == calls \o <<Returning(Call("findAvailableAllocation", a.http, <<>>), a.data)>>
           IN  IF a.data = None
               THEN {Outcome("backend", Content("no_allocation", <<>>, <<>>), all)}
               ELSE CreateAndMonitor(
                        CreationOptions(args.server_name, targetEgg, a.data[1], args.environment_variables),
                        all) :
           a \in findAvailableAllocation(PTERO_DEFAULT_NODE_ID[1])}

\* A variant of ConfiguredForCreation: the node id not tested.
ConfiguredForCreationOwnerOnly == Truthy(PTERO_DEFAULT_OWNER_ID)

\* !(!PTERO_DEFAULT_OWNER_ID || !PTERO_DEFAULT_NODE_ID)
ConfiguredForCreation == Truthy(PTERO_DEFAULT_OWNER_ID) /\ Truthy(PTERO_DEFAULT_NODE_ID)

create_pterodactyl_server(args) ==
    IF args.egg_name = None
    THEN {Thrown(<<>>)}
    ELSE IF ~ConfiguredForCreation
    THEN {Outcome("config", Content("config", <<>>, <<>>), <<>>)}
    ELSE UNION {IF re.details = None
                THEN {EggNotResolved(re)}
                ELSE AllocateAndCreate(args, re.details[1], re.calls) :
                re \in ResolvedEggs(args, "egg_not_found_cannot_create")}

ToolNames ==
    {"list_pterodactyl_servers_basic_info", "get_specific_server_details_and_status",
     "get_online_status_for_all_servers", "send_pterodactyl_power_signal",
     "list_available_games_and_types", "get_specific_egg_installation_details",
     "create_pterodactyl_server"}

\* The if/else-if chain on functionName, inside the try of the dispatch.
Dispatch(inv) ==
    CASE inv.name = "list_pterodactyl_servers_basic_info" -> list_pterodactyl_servers_basic_info(inv.args)
      [] inv.name = "get_specific_server_details_and_status" -> get_specific_server_details_and_status(inv.args)
      [] inv.name = "get_online_status_for_all_servers" -> get_online_status_for_all_servers(inv.args)
      [] inv.name = "send_pterodactyl_power_signal" -> send_pterodactyl_power_signal(inv.args)
      [] inv.name = "list_available_games_and_types" -> list_available_games_and_types(inv.args)
      [] inv.name = "get_specific_egg_installation_details" -> get_specific_egg_installation_details(inv.args)
      [] inv.name = "create_pterodactyl_server" -> create_pterodactyl_server(inv.args)
      [] OTHER -> {Outcome("unknown", Content("unknown_function", <<>>, <<>>), <<>>)}

(***************************************************************************)
(* The reasoning engine.  It is outside the program: a call fails, or      *)
(* returns a message with content and, possibly, tool calls.  The loop     *)
(* reads of a tool call only its id until the call is dispatched, where    *)
(* its function name and arguments are read; the model draws them there.   *)
(* The call ids of a response are distinct: <<n, k>> is the k-th call of   *)
(* the n-th response.                                                      *)
(***************************************************************************)
Invocation(name, args) == [name |-> name, args |-> args]

UserEnvironments ==
    {None, Some(EmptyEnvironment), Some("K1" :> "u1"), Some("K3" :> "u3"),
     Some(("K1" :> "u1") @@ ("K3" :> "u3"))}

CreateInvocations ==
    {Invocation("create_pterodactyl_server",
                [NoArgs EXCEPT !.server_name = n, !.egg_name = e, !.nest_name = c, !.environment_variables = u]) :
        n \in {None, Some(<<"n">>)},
        e \in {None, Some(<<"V", "A">>), Some(<<"a">>), Some(<<"z">>)},
        c \in {None, Some(<<>>), Some(<<"S", "G">>), Some(<<"z">>)},
        u \in UserEnvironments}

LoopInvocations ==
    {Invocation("list_pterodactyl_servers_basic_info", NoArgs),
     Invocation("get_online_status_for_all_servers", NoArgs),
     Invocation("list_available_games_and_types", NoArgs),
     Invocation("delete_pterodactyl_server", NoArgs),
     Invocation("delete_pterodactyl_server", [NoArgs EXCEPT !.parses = FALSE]),
     Invocation("list_pterodactyl_servers_basic_info", [NoArgs EXCEPT !.parses = FALSE])}
    \cup {Invocation("get_specific_server_details_and_status", [NoArgs EXCEPT !.serverId = q]) :
             q \in {None, Some(<<"a">>), Some(<<"A", "B">>), Some(<<"x">>)}}
    \cup {Invocation("send_pterodactyl_power_signal", [NoArgs EXCEPT !.serverId = a[1], !.signal = a[2]]) :
             a \in {<<Some(<<"c">>), "start">>, <<Some(<<"A", "B">>), "restart">>, <<Some(<<"b">>), "reboot">>}}
    \cup {Invocation("get_specific_egg_installation_details", [NoArgs EXCEPT !.egg_name = a[1], !.nest_name = a[2]]) :
             a \in {<<None, None>>, <<Some(<<"v", "a">>), None>>, <<Some(<<"p", "a">>), Some(<<"s", "g">>)>>}}
    \cup {Invocation("create_pterodactyl_server",
                     [NoArgs EXCEPT !.server_name = Some(<<"n">>), !.egg_name = e,
                                    !.environment_variables = Some("K1" :> "u1")]) :
             e \in {Some(<<"v", "a">>), Some(<<"z">>)}}

\* '{"user_message":"u"}': content that JSON.parse turns into an object with a user_message.
UserMessageJson == <<"{", "u", "}">>

Contents == {<<>>, <<" ">>, <<"h", "i">>, <<" ", "h", "i", " ">>, UserMessageJson}

ToolCalls(n, len) == [k \in 1..len |-> [id |-> <<n, k>>]]

\* The messages the n-th call of the engine can return.  The content of a message that carries
\* tool calls is read on no path of the run, and is left empty.
Responses(n) ==
    {[tool_calls |-> None, content |-> c] : c \in Contents}
    \cup {[tool_calls |-> Some(ToolCalls(n, len)), content |-> <<>>] : len \in 1..MaxBatch}

(***************************************************************************)
(* processUserQueryWithLLM.                                                *)
(***************************************************************************)
Unavailable == <<"I'm sorry, but my connection to the advanced language model is currently unavailable.">>

Greeting == <<"Hey there! How can I help you manage your servers today?">>

LoopApology == <<"I seem to be stuck in a loop trying to figure that out. Could you simplify your request?">>

FallbackApology == <<"I processed the information, but I'm having a little trouble phrasing my response.">>

GenericApology == <<"I encountered an issue while trying to process your request with the language model and its tools.">>

Message(role, id, calls) == [role |-> role, tool_call_id |-> id, tool_calls |-> calls]

NoCalls == [k \in {} |-> [id |-> <<0, 0>>]]

NoLast ==
    [id |-> <<0, 0>>, name |-> "", args |-> NoArgs, appended |-> FALSE]
    @@ Outcome("none", Content("none", <<>>, <<>>), <<>>)

RECURSIVE trim(_)
trim(s) ==
    IF s # <<>> /\ Head(s) = " " THEN trim(Tail(s))
    ELSE IF s # <<>> /\ s[Len(s)] = " " THEN trim(SubSeq(s, 1, Len(s) - 1))
    ELSE s

\* JSON.parse(content).user_message, None when content is no JSON or has no such field.
ParsedUserMessage(content) == IF content = UserMessageJson THEN Some(<<"u">>) ELSE None

\* The handler's invocation while the model does not follow it: channel is the kind of
\* message.channel ("guild" for a TextChannel, NewsChannel or ThreadChannel, "dm" for a DMChannel,
\* "voice" for a text-based guild channel of another class), channelId its id, attempts the
\* replies it has called message.reply for, delivered those that did not throw.
NoHandler ==
    [pc |-> "idle", bot |-> FALSE, mentioned |-> FALSE, channel |-> "guild", channelId |-> "c1",
     attempts |-> <<>>, delivered |-> <<>>, thrown |-> FALSE, unhandled |-> FALSE, parts |-> 0]

\* The monitor's task before any server has been created: its fields hold the locals of
\* monitorServerInstallationAndStartup and what the task has done so far.
NoMonitor ==
    [pc |-> "none", serverUuid |-> "", serverIdentifier |-> <<>>, serverName |-> <<>>,
     channel |-> FALSE, elapsed |-> 0, isStillInstalling |-> FALSE, serverIsRunning |-> FALSE,
     phase |-> "none", sent |-> <<>>, thrown |-> FALSE, offline |-> 0, starts |-> 0,
     otherSignals |-> 0, pending |-> "", issuedAt |-> 0, runningAt |-> <<>>, scenario |-> 0,
     failureNotices |-> 0, listedInstalled |-> FALSE, channelId |-> "", polled |-> {}, notified |-> {}]

\* The task as monitorServerInstallationAndStartup(serverUuid, serverIdentifier, serverName,
\* originalMessage) starts it, originalMessage being the message of the handler; channel tells
\* whether originalMessage.channel is a TextChannel, NewsChannel, ThreadChannel or DMChannel.
\* polled holds the identifiers the task has asked the resources of or signalled, notified the
\* ids of the channels it has sent to.
StartedMonitor(m, channel) ==
    [NoMonitor EXCEPT !.pc = "install", !.serverUuid = m.serverUuid,
                      !.serverIdentifier = m.serverIdentifier, !.serverName = m.serverName,
                      !.channel = channel, !.isStillInstalling = TRUE, !.phase = "Installing",
                      !.channelId = handler.channelId]

\* The panel as far as the run reads it back: nothing is tracked of it.
NoPanel == [allocations |-> <<>>, creates |-> <<>>]

\* No other message is being handled.
NoTask ==
    [run |-> [pc |-> "idle", userQuery |-> <<>>, messages |-> <<>>,
              responseMessage |-> [tool_calls |-> None, content |-> <<>>], iterationCount |-> 0,
              toolIndex |-> 0, llmCalls |-> 0, last |-> NoLast, result |-> None],
     mon |-> NoMonitor,
     handler |-> NoHandler]

\* A variant of StartRun: the utterance added to a conversation kept from one call to the next.
StartRunOnKeptConversation ==
    /\ pc = "start"
    /\ IF ~env.OPENAI_API_KEY
       THEN /\ result' = Some(Unavailable)
            /\ pc' = "done"
            /\ UNCHANGED messages
       ELSE IF userQuery = <<>>
       THEN /\ result' = Some(Greeting)
            /\ pc' = "done"
            /\ UNCHANGED messages
       ELSE /\ messages' = IF messages = <<>>
                           THEN <<Message("system", <<0, 0>>, NoCalls), Message("user", <<0, 0>>, NoCalls)>>
                           ELSE Append(messages, Message("user", <<0, 0>>, NoCalls))
            /\ pc' = "call"
            /\ UNCHANGED result
    /\ UNCHANGED <<env, panel, parked, handler, userQuery, responseMessage, iterationCount, toolIndex, llmCalls, last, mon>>

\* The early returns, then the seeding of messages with the system instruction and the utterance.
StartRun ==
    /\ pc = "start"
    /\ IF ~env.OPENAI_API_KEY
       THEN /\ result' = Some(Unavailable)
            /\ pc' = "done"
            /\ UNCHANGED messages
       ELSE IF userQuery = <<>>
       THEN /\ result' = Some(Greeting)
            /\ pc' = "done"
            /\ UNCHANGED messages
       ELSE /\ messages' = <<Message("system", <<0, 0>>, NoCalls), Message("user", <<0, 0>>, NoCalls)>>
            /\ pc' = "call"
            /\ UNCHANGED result
    /\ UNCHANGED <<env, panel, parked, handler, userQuery, responseMessage, iterationCount, toolIndex, llmCalls, last, mon>>

\* openai.chat.completions.create and the reading of response.choices[0].message, the responses
\* drawn from responses: the initial request and the one at the end of each iteration; a failure
\* (the call rejecting, or a response without a message) is caught by the catch around the whole run.
\* A variant of CallEngineOf: a failed request is made again.
CallEngineRetrying(responses) ==
    /\ pc = "call"
    /\ llmCalls' = llmCalls + 1
    /\ \/ /\ last' = [NoLast EXCEPT !.fail = "engine"]
          /\ UNCHANGED <<responseMessage, result, pc>>
       \/ \E r \in responses :
             /\ last' = NoLast
             /\ responseMessage' = r
             /\ pc' = "loop"
             /\ UNCHANGED result
    /\ UNCHANGED <<env, panel, parked, handler, userQuery, messages, iterationCount, toolIndex, mon>>

CallEngineOf(responses) ==
    /\ pc = "call"
    /\ llmCalls' = llmCalls + 1
    /\ \/ /\ last' = [NoLast EXCEPT !.fail = "engine"]
          /\ result' = Some(GenericApology)
          /\ pc' = "done"
          /\ UNCHANGED responseMessage
       \/ \E r \in responses :
             /\ last' = NoLast
             /\ responseMessage' = r
             /\ pc' = "loop"
             /\ UNCHANGED result
    /\ UNCHANGED <<env, panel, parked, handler, userQuery, messages, iterationCount, toolIndex, mon>>

CallEngine == CallEngineOf(Responses(llmCalls + 1))

\* while (responseMessage.tool_calls && iterationCount < maxIterations)
LoopCondition == responseMessage.tool_calls # None /\ iterationCount < maxIterations

\* The head of the while loop: iterationCount++ and messages.push(responseMessage).
EnterIteration ==
    /\ pc = "loop"
    /\ IF LoopCondition
       THEN /\ iterationCount' = iterationCount + 1
            /\ messages' = Append(messages, Message("assistant", <<0, 0>>, responseMessage.tool_calls[1]))
            /\ toolIndex' = 1
            /\ pc' = "tool"
       ELSE /\ pc' = "final"
            /\ UNCHANGED <<iterationCount, messages, toolIndex>>
    /\ UNCHANGED <<env, panel, parked, handler, userQuery, responseMessage, llmCalls, last, result, mon>>

\* Whether discordMessage.channel is of a kind the monitor sends to: the message is that of the
\* handler, the same for every monitor a run starts.
ChannelKinds ==
    IF handler.pc # "idle" THEN {handler.channel \in {"guild", "dm"}}
    ELSE IF mon.pc = "none" THEN BOOLEAN
    ELSE {mon.channel}

\* The body of the for-loop for one tool call, drawn from invocations: JSON.parse of the arguments
\* (outside the try of the dispatch: its exception ends the run in the outer catch), the dispatch
\* (which starts the monitor of a server it created, without awaiting it), and messages.push of
\* the tool message.
ExecuteToolCallOf(invocations, position) ==
    /\ pc = "tool"
    /\ \E inv \in invocations :
          LET toolCall == responseMessage.tool_calls[1][position]
          IN  IF ~inv.args.parses
              THEN /\ last' = [NoLast EXCEPT !.id = toolCall.id, !.name = inv.name, !.args = inv.args,
                                            !.fail = "arguments"]
                   /\ result' = Some(GenericApology)
                   /\ pc' = "done"
                   /\ UNCHANGED <<messages, toolIndex, mon>>
              ELSE \E o \in Dispatch(inv) :
                      /\ last' = [id |-> toolCall.id, name |-> inv.name, args |-> inv.args, appended |-> TRUE] @@ o
                      /\ messages' = Append(messages, Message("tool", toolCall.id, NoCalls))
                      /\ toolIndex' = toolIndex + 1
                      /\ pc' = IF toolIndex >= Len(responseMessage.tool_calls[1]) THEN "batch" ELSE "tool"
                      /\ IF o.monitor # None
                         THEN \E channel \in ChannelKinds : mon' = StartedMonitor(o.monitor[1], channel)
                         ELSE UNCHANGED mon
                      /\ UNCHANGED result
    /\ UNCHANGED <<env, panel, parked, handler, userQuery, responseMessage, iterationCount, llmCalls>>

\* A variant of NextPosition: the calls taken from the last to the first.
NextPositionReversed == Len(responseMessage.tool_calls[1]) + 1 - toolIndex

\* for (const toolCall of responseMessage.tool_calls): the calls are taken in the order of the array.
NextPosition == toolIndex

ExecuteToolCall == ExecuteToolCallOf(LoopInvocations, NextPosition)

\* A variant of CapReached: the cap compared with > for >=.
CapReachedOffByOne == iterationCount > maxIterations

\* if (iterationCount >= maxIterations)
CapReached == iterationCount >= maxIterations

\* A variant of AfterBatch: the monitor awaited before the run goes on.
AfterBatchAwaitingMonitor ==
    /\ pc = "batch"
    /\ mon.pc \in {"none", "done"}
    /\ IF CapReached
       THEN /\ result' = Some(LoopApology)
            /\ pc' = "done"
       ELSE /\ pc' = "call"
            /\ UNCHANGED result
    /\ UNCHANGED <<env, panel, parked, handler, userQuery, messages, responseMessage, iterationCount, toolIndex, llmCalls, last, mon>>

\* A variant of AfterBatch: no circuit breaker.
AfterBatchWithoutBreaker ==
    /\ pc = "batch"
    /\ pc' = "call"
    /\ UNCHANGED <<env, panel, parked, handler, userQuery, messages, responseMessage, iterationCount, toolIndex, llmCalls,
                   last, result, mon>>

\* After the for-loop: the circuit breaker, or on to the next request to the engine.
AfterBatch ==
    /\ pc = "batch"
    /\ IF CapReached
       THEN /\ result' = Some(LoopApology)
            /\ pc' = "done"
       ELSE /\ pc' = "call"
            /\ UNCHANGED result
    /\ UNCHANGED <<env, panel, parked, handler, userQuery, messages, responseMessage, iterationCount, toolIndex, llmCalls, last, mon>>

\* The user_message of the payload of a successful create_pterodactyl_server.
CreateUserMessage == <<"I've started the creation process for server. I will send another message here when it's fully online and ready!">>

\* A variant of FinalAnswer: the user_message of the tool result of a created server is returned
\* in place of what the engine answered.
FinalAnswerOfToolResult ==
    IF mon.pc # "none"
    THEN CreateUserMessage
    ELSE IF responseMessage.tool_calls = None
            /\ responseMessage.content # <<>>
            /\ ParsedUserMessage(responseMessage.content) # None
    THEN ParsedUserMessage(responseMessage.content)[1]
    ELSE IF responseMessage.content # <<>>
    THEN trim(responseMessage.content)
    ELSE FallbackApology

\* A variant of FinalAnswer: the content is not looked into for a user_message.
FinalAnswerOfContentOnly ==
    IF responseMessage.content # <<>> THEN trim(responseMessage.content) ELSE FallbackApology

\* What is returned once the loop is left.
FinalAnswer ==
    IF responseMessage.tool_calls = None
       /\ responseMessage.content # <<>>
       /\ ParsedUserMessage(responseMessage.content) # None
    THEN ParsedUserMessage(responseMessage.content)[1]
    ELSE IF responseMessage.content # <<>>
    THEN trim(responseMessage.content)
    ELSE FallbackApology

ReturnAnswer ==
    /\ pc = "final"
    /\ result' = Some(FinalAnswer)
    /\ pc' = "done"
    /\ UNCHANGED <<env, panel, parked, handler, userQuery, messages, responseMessage, iterationCount, toolIndex, llmCalls, last, mon>>

RunInit ==
    /\ pc = "start"
    /\ messages = <<>>
    /\ responseMessage = [tool_calls |-> None, content |-> <<>>]
    /\ iterationCount = 0
    /\ toolIndex = 0
    /\ llmCalls = 0
    /\ last = NoLast
    /\ result = None

\* The configurations the loop is explored under.
LoopEnvironments ==
    {e \in Environments :
        /\ e.PTERODACTYL_DEFAULT_OWNER_ID = <<"7">>
        /\ e.PTERODACTYL_DEFAULT_NODE_ID = <<"7">>
        /\ e.client /\ e.app}

Init ==
    /\ env \in LoopEnvironments
    /\ userQuery \in {<<>>, <<"q">>}
    /\ RunInit
    /\ mon = NoMonitor
    /\ handler = NoHandler
    /\ parked = NoTask
    /\ panel = NoPanel

Next ==
    \/ StartRun
    \/ CallEngine
    \/ EnterIteration
    \/ ExecuteToolCall
    \/ AfterBatch
    \/ ReturnAnswer

Spec == Init /\ [][Next]_vars

(***************************************************************************)
(* A second specification: one create_pterodactyl_server call (or any      *)
(* other tool call) dispatched from the state the run is in once the       *)
(* engine's first response, carrying one tool call, has been taken into    *)
(* the conversation, under every configuration of the default ids.         *)
(***************************************************************************)
CreateEnvironments == {e \in Environments : e.OPENAI_API_KEY /\ e.client}

CreateInit ==
    /\ env \in CreateEnvironments
    /\ userQuery = <<"q">>
    /\ pc = "tool"
    /\ messages = <<Message("system", <<0, 0>>, NoCalls), Message("user", <<0, 0>>, NoCalls),
                    Message("assistant", <<0, 0>>, ToolCalls(1, 1))>>
    /\ responseMessage = [tool_calls |-> Some(ToolCalls(1, 1)), content |-> <<>>]
    /\ iterationCount = 1
    /\ toolIndex = 1
    /\ llmCalls = 1
    /\ last = NoLast
    /\ result = None
    /\ mon = NoMonitor
    /\ handler = NoHandler
    /\ parked = NoTask
    /\ panel = NoPanel

ExecuteCreateCall == ExecuteToolCallOf(CreateInvocations, NextPosition)

CreateNext ==
    \/ ExecuteCreateCall
    \/ AfterBatch

CreateSpec == CreateInit /\ [][CreateNext]_vars

\* The state of CreateSpec under the one configuration in which every key is set.
TaskEnvironments == {e \in LoopEnvironments : e.OPENAI_API_KEY}

TaskInit ==
    /\ CreateInit
    /\ env \in TaskEnvironments

(***************************************************************************)
(* A third specification: monitorServerInstallationAndStartup.  The        *)
(* monitor is a task of its own: it is explored from the state in which a  *)
(* run that created a server has returned.  Time is the monitor's          *)
(* Date.now() - startTime in milliseconds; it advances while the monitor   *)
(* awaits: by the latency of a request to the panel, and by the delay of a *)
(* sleep.                                                                  *)
(***************************************************************************)
Latencies == {0, 5000}

\* What the panel can list while the monitor runs: the created server absent, installing, installed.
Listed(m, installing) ==
    [identifier |-> m.serverIdentifier, uuid |-> m.serverUuid, name |-> m.serverName,
     is_installing |-> installing]

MonitoredListings(m) == {<<>>, <<SrvA>>} \cup {<<SrvA, Listed(m, b)>> : b \in BOOLEAN}

\* listServers() while the monitor runs.
listServersMonitored(m) ==
    IF ~env.client
    THEN {[http |-> FALSE, ok |-> FALSE, data |-> <<>>]}
    ELSE {[http |-> TRUE, ok |-> FALSE, data |-> <<>>]}
         \cup {[http |-> TRUE, ok |-> TRUE, data |-> l] : l \in MonitoredListings(m)}

\* A variant of WithinBudget: <= for <.
WithinBudgetInclusive(elapsed) == elapsed <= monitoringTimeoutMs

\* Date.now() - startTime < monitoringTimeoutMs
WithinBudget(elapsed) == elapsed < monitoringTimeoutMs

\* The progress of the observations through: installing (once or more), installed, offline,
\* starting, running.  -1 once the observations have left that sequence.
ScenarioStep(stage, observation) ==
    CASE stage \in {0, 1} /\ observation = "installing" -> 1
      [] stage = 1 /\ observation = "installed" -> 2
      [] stage = 2 /\ observation = "offline" -> 3
      [] stage = 3 /\ observation = "starting" -> 4
      [] stage = 4 /\ observation = "running" -> 5
      [] OTHER -> -1

\* A variant of Caught: the failure notice is not attempted.
CaughtWithoutNotice(m) == {[m EXCEPT !.pc = "done", !.thrown = TRUE, !.phase = "Failed"]}

\* The catch of the monitor, entered by m when a send has thrown: its own guarded send of the
\* failure notice, delivered or throwing in its turn, that exception being swallowed.
Caught(m) ==
    LET failed == [m EXCEPT !.pc = "done", !.thrown = TRUE, !.phase = "Failed"]
    IN  IF ~m.channel
        THEN {failed}
        ELSE {[failed EXCEPT !.failureNotices = @ + 1, !.sent = Append(@, "failure"),
                             !.notified = @ \cup {m.channelId}],
              [failed EXCEPT !.failureNotices = @ + 1]}

\* A variant of Notify: the notice sent to a channel kept at module level, not to the
\* channel of originalMessage.
NotifyDefaultChannel(m, kind) ==
    IF ~m.channel
    THEN {[m EXCEPT !.pc = "done"]}
    ELSE {[m EXCEPT !.pc = "done", !.sent = Append(@, kind), !.notified = @ \cup {"c1"}]}
         \cup Caught(m)

\* The guarded channel.send(text) of a notification, delivered or throwing, and the return that
\* follows it.
Notify(m, kind) ==
    IF ~m.channel
    THEN {[m EXCEPT !.pc = "done"]}
    ELSE {[m EXCEPT !.pc = "done", !.sent = Append(@, kind), !.notified = @ \cup {m.channelId}]}
         \cup Caught(m)

\* A variant of MonitorInstallPoll: a server that is not listed is taken for installed.
MonitorInstallPollAbsentIsInstalled ==
    /\ mon.pc = "install"
    /\ IF mon.isStillInstalling /\ WithinBudget(mon.elapsed)
       THEN \E r \in listServersMonitored(mon), latency \in Latencies :
               LET currentServerData ==
                       Find(r.data, {k \in 1..Len(r.data) : r.data[k].uuid = mon.serverUuid})
                   polled == [mon EXCEPT
                                 !.elapsed = @ + latency,
                                 !.listedInstalled =
                                     \E k \in 1..Len(r.data) :
                                         r.data[k].uuid = mon.serverUuid /\ ~r.data[k].is_installing]
               IN  IF currentServerData = None \/ ~currentServerData[1].is_installing
                   THEN mon' = [polled EXCEPT !.isStillInstalling = FALSE, !.pc = "installed",
                                              !.scenario = ScenarioStep(@, "installed")]
                   ELSE mon' = [polled EXCEPT !.elapsed = @ + initialPollDelayMs, !.pc = "installCheck",
                                              !.scenario = ScenarioStep(@, "installing")]
       ELSE mon' = [mon EXCEPT !.pc = "installed"]
    /\ UNCHANGED <<env, panel, parked, handler, runVars>>

\* One turn of the loop of phase 1 up to its sleep: the loop condition, listServers, the search
\* of the created server by uuid, and the reading of its is_installing flag.  listedInstalled
\* records that the listing returned held the server with the flag cleared.
MonitorInstallPollOf(results) ==
    /\ mon.pc = "install"
    /\ IF mon.isStillInstalling /\ WithinBudget(mon.elapsed)
       THEN \E r \in results, latency \in Latencies :
               LET currentServerData ==
                       Find(r.data, {k \in 1..Len(r.data) : r.data[k].uuid = mon.serverUuid})
                   polled == [mon EXCEPT
                                 !.elapsed = @ + latency,
                                 !.listedInstalled =
                                     \E k \in 1..Len(r.data) :
                                         r.data[k].uuid = mon.serverUuid /\ ~r.data[k].is_installing]
               IN  IF currentServerData # None /\ ~currentServerData[1].is_installing
                   THEN mon' = [polled EXCEPT !.isStillInstalling = FALSE, !.pc = "installed",
                                              !.scenario = ScenarioStep(@, "installed")]
                   ELSE mon' = [polled EXCEPT !.elapsed = @ + initialPollDelayMs, !.pc = "installCheck",
                                              !.scenario = ScenarioStep(@, IF currentServerData # None
                                                                           THEN "installing" ELSE "absent")]
       ELSE mon' = [mon EXCEPT !.pc = "installed"]
    /\ UNCHANGED <<env, panel, parked, handler, runVars>>

\* The turn of phase 1 on what listServers can return.
MonitorInstallPoll == MonitorInstallPollOf(listServersMonitored(mon))

\* The check of the budget that ends a turn of the loop of phase 1.
MonitorInstallCheck ==
    /\ mon.pc = "installCheck"
    /\ IF ~WithinBudget(mon.elapsed)
       THEN mon' \in Notify([mon EXCEPT !.phase = "TimedOut"], "install_timeout")
       ELSE mon' = [mon EXCEPT !.pc = "install"]
    /\ UNCHANGED <<env, panel, parked, handler, runVars>>

\* if (isStillInstalling) return; and the entry into phase 2.
MonitorInstalled ==
    /\ mon.pc = "installed"
    /\ IF mon.isStillInstalling
       THEN mon' = [mon EXCEPT !.pc = "done", !.phase = "TimedOut"]
       ELSE mon' = [mon EXCEPT !.pc = "run", !.phase = "AwaitingRunning"]
    /\ UNCHANGED <<env, panel, parked, handler, runVars>>

\* The power signals sent on an observed state, in order.
\* Variants of SignalsOn: a start signal on a second state as well.
SignalsOnStartingToo(state) == IF state \in {"offline", "starting"} THEN <<"start">> ELSE <<>>

SignalsOnStoppingToo(state) == IF state \in {"offline", "stopping"} THEN <<"start">> ELSE <<>>

SignalsOn(state) == IF state = "offline" THEN <<"start">> ELSE <<>>

\* A variant of MonitorResourcePoll: the loop of phase 2 without the budget in its condition.
MonitorResourcePollUnbudgeted ==
    /\ mon.pc = "run"
    /\ IF ~mon.serverIsRunning
       THEN \E r \in getServerResources(mon.serverIdentifier), latency \in Latencies :
               LET polled == [mon EXCEPT !.issuedAt = mon.elapsed, !.elapsed = @ + latency,
                                         !.polled = @ \cup {mon.serverIdentifier}]
                   state == IF r.data = None THEN "absent" ELSE r.data[1]
                   seen == [polled EXCEPT !.scenario = ScenarioStep(@, state),
                                          !.offline = @ + (IF state = "offline" THEN 1 ELSE 0)]
               IN  IF state = "running"
                   THEN mon' \in Notify([seen EXCEPT !.serverIsRunning = TRUE, !.phase = "Succeeded",
                                                     !.runningAt = <<polled.elapsed>>],
                                        "success")
                   ELSE IF SignalsOn(state) # <<>>
                   THEN mon' = [seen EXCEPT !.pc = "signal", !.pending = SignalsOn(state)[1]]
                   ELSE mon' = [seen EXCEPT !.elapsed = @ + resourcePollDelayMs, !.pc = "runCheck"]
       ELSE mon' = [mon EXCEPT !.pc = "done", !.phase = "TimedOut"]
    /\ UNCHANGED <<env, panel, parked, handler, runVars>>

\* One turn of the loop of phase 2 up to the state read: the loop condition, getServerResources,
\* and the success notice when the state is 'running'.  When the loop condition fails the
\* function ends without a word.
MonitorResourcePollOf(results) ==
    /\ mon.pc = "run"
    /\ IF ~mon.serverIsRunning /\ WithinBudget(mon.elapsed)
       THEN \E r \in results, latency \in Latencies :
               LET polled == [mon EXCEPT !.issuedAt = mon.elapsed, !.elapsed = @ + latency,
                                         !.polled = @ \cup {mon.serverIdentifier}]
                   state == IF r.data = None THEN "absent" ELSE r.data[1]
                   seen == [polled EXCEPT !.scenario = ScenarioStep(@, state),
                                          !.offline = @ + (IF state = "offline" THEN 1 ELSE 0)]
               IN  IF state = "running"
                   THEN mon' \in Notify([seen EXCEPT !.serverIsRunning = TRUE, !.phase = "Succeeded",
                                                     !.runningAt = <<polled.elapsed>>],
                                        "success")
                   ELSE IF SignalsOn(state) # <<>>
                   THEN mon' = [seen EXCEPT !.pc = "signal", !.pending = SignalsOn(state)[1]]
                   ELSE mon' = [seen EXCEPT !.elapsed = @ + resourcePollDelayMs, !.pc = "runCheck"]
       ELSE mon' = [mon EXCEPT !.pc = "done", !.phase = "TimedOut"]
    /\ UNCHANGED <<env, panel, parked, handler, runVars>>

\* The turn of phase 2 on what getServerResources can return.
MonitorResourcePoll == MonitorResourcePollOf(getServerResources(mon.serverIdentifier))

\* A variant of MonitorSendSignalOf: a signal the panel refused is thrown to the catch.
MonitorSendSignalOfThrowing(results) ==
    /\ mon.pc = "signal"
    /\ \E r \in results, latency \in Latencies :
          LET sent == [mon EXCEPT !.starts = @ + (IF mon.pending = "start" THEN 1 ELSE 0),
                                  !.otherSignals = @ + (IF mon.pending = "start" THEN 0 ELSE 1),
                                  !.pending = "",
                                  !.polled = @ \cup {mon.serverIdentifier},
                                  !.elapsed = @ + latency]
          IN  IF r.data
              THEN mon' = [sent EXCEPT !.elapsed = @ + resourcePollDelayMs, !.pc = "runCheck"]
              ELSE mon' \in Caught(sent)
    /\ UNCHANGED <<env, panel, parked, handler, runVars>>

\* await sendPowerSignal(serverIdentifier, 'start'), then the sleep that ends the turn.
MonitorSendSignalOf(results) ==
    /\ mon.pc = "signal"
    /\ \E r \in results, latency \in Latencies :
          mon' = [mon EXCEPT !.starts = @ + (IF mon.pending = "start" THEN 1 ELSE 0),
                             !.otherSignals = @ + (IF mon.pending = "start" THEN 0 ELSE 1),
                             !.pending = "",
                             !.polled = @ \cup {mon.serverIdentifier},
                             !.elapsed = @ + latency + resourcePollDelayMs,
                             !.pc = "runCheck"]
    /\ UNCHANGED <<env, panel, parked, handler, runVars>>

\* The signal on what sendPowerSignal can return.
MonitorSendSignal == MonitorSendSignalOf(sendPowerSignal(mon.serverIdentifier, mon.pending))

\* The check of the budget that ends a turn of the loop of phase 2.
MonitorRunCheck ==
    /\ mon.pc = "runCheck"
    /\ IF ~WithinBudget(mon.elapsed)
       THEN mon' \in Notify([mon EXCEPT !.phase = "TimedOut"], "run_timeout")
       ELSE mon' = [mon EXCEPT !.pc = "run"]
    /\ UNCHANGED <<env, panel, parked, handler, runVars>>

MonitorEnvironments ==
    {e \in Environments :
        /\ e.PTERODACTYL_DEFAULT_OWNER_ID = <<"7">>
        /\ e.PTERODACTYL_DEFAULT_NODE_ID = <<"7">>
        /\ e.OPENAI_API_KEY /\ e.app}

\* The run that created the server "n" has returned its answer; its monitor has been started.
MonInit ==
    /\ env \in MonitorEnvironments
    /\ userQuery = <<"q">>
    /\ pc = "done"
    /\ messages = <<Message("system", <<0, 0>>, NoCalls), Message("user", <<0, 0>>, NoCalls),
                    Message("assistant", <<0, 0>>, ToolCalls(1, 1)), Message("tool", <<1, 1>>, NoCalls)>>
    /\ responseMessage = [tool_calls |-> None, content |-> UserMessageJson]
    /\ iterationCount = 1
    /\ toolIndex = 2
    /\ llmCalls = 2
    /\ last = NoLast
    /\ result = Some(<<"u">>)
    /\ handler = NoHandler
    /\ parked = NoTask
    /\ panel = NoPanel
    /\ \E channel \in BOOLEAN : mon = StartedMonitor(MonitorFor(CreatedServer(<<"n">>)), channel)

MonNext ==
    \/ MonitorInstallPoll
    \/ MonitorInstallCheck
    \/ MonitorInstalled
    \/ MonitorResourcePoll
    \/ MonitorSendSignal
    \/ MonitorRunCheck

MonSpec == MonInit /\ [][MonNext]_vars

\* The monitor under the scheduling of the event loop: a request to the panel, a sleep and a
\* send all complete, and the continuation that awaits them is then run.
MonFairSpec == MonSpec /\ WF_vars(MonNext)

(***************************************************************************)
(* A fourth specification, for resolveServerId alone: one call of the      *)
(* resolver, from the state of CreateSpec, on a query and on a listing     *)
(* that listServers returns, drawn from every order of up to three         *)
(* servers.  The call is recorded in last: the query as the serverId       *)
(* argument, the listing as what listServers returned, and the value       *)
(* resolved as the body of the content.                                    *)
(***************************************************************************)
SrvC == [identifier |-> <<"m">>, uuid |-> "uuid-m", name |-> <<"c", "V">>, is_installing |-> FALSE]

ResolverServers == {SrvA, SrvB, SrvC}

ResolverListings ==
    {<<>>}
    \cup {<<x>> : x \in ResolverServers}
    \cup {l \in [1..2 -> ResolverServers] : l[1] # l[2]}
    \cup {l \in [1..3 -> ResolverServers] : \A j, k \in 1..3 : l[j] = l[k] => j = k}

ResolverQueries ==
    {<<>>, <<"a">>, <<"A">>, <<"b">>, <<"m">>, <<"c">>, <<"v">>, <<"V">>, <<"x">>,
     <<"A", "B">>, <<"B", "C">>}

ResolveQuery ==
    /\ pc = "tool"
    /\ last = NoLast
    /\ \E query \in ResolverQueries, allServers \in ResolverListings :
          last' = [NoLast EXCEPT
                      !.name = "resolveServerId",
                      !.args = [NoArgs EXCEPT !.serverId = Some(query)],
                      !.calls = <<Returning(Call("listServers", TRUE, <<>>), allServers)>>,
                      !.content = Content("none", <<>>, resolveServerId(query, allServers))]
    /\ UNCHANGED <<env, panel, parked, handler, pc, userQuery, messages, responseMessage, iterationCount, toolIndex, llmCalls,
                   result, mon>>

ResolveNext == ResolveQuery

ResolveSpec == TaskInit /\ [][ResolveNext]_vars

(***************************************************************************)
(* A tenth specification: the egg search of create_pterodactyl_server and  *)
(* get_specific_egg_installation_details alone, as a function of the egg   *)
(* name, the nest name and the catalog that listNestsWithEggs returned.    *)
(* One step reads the two arguments as the tools do (lower-cased) and runs *)
(* the search loop; last holds the arguments, the catalog as what the      *)
(* listing call returned, and the nest and egg found as the body of the    *)
(* content.                                                                *)
(***************************************************************************)
EggCatalogs == {<<>>, <<NestMc>>, <<NestSg>>, <<NestMc, NestSg>>, <<NestSg, NestMc>>}

EggQueries == {<<"v", "a">>, <<"V", "A">>, <<"p", "a">>, <<"a">>, <<"p">>, <<"z">>}

NestQueries == {None, Some(<<"M", "C">>), Some(<<"s", "g">>), Some(<<"z">>)}

ResolveEgg ==
    /\ pc = "tool"
    /\ last = NoLast
    /\ \E eggName \in EggQueries, nestName \in NestQueries, allNestsWithEggs \in EggCatalogs :
          last' = [NoLast EXCEPT
                      !.name = "FindEgg",
                      !.args = [NoArgs EXCEPT !.egg_name = Some(eggName), !.nest_name = nestName],
                      !.calls = <<Returning(Call("listNestsWithEggs", TRUE, <<>>), allNestsWithEggs)>>,
                      !.content = Content("none", <<>>,
                                          FindEgg(allNestsWithEggs, toLowerCase(eggName),
                                                  IF nestName = None THEN None
                                                  ELSE Some(toLowerCase(nestName[1]))))]
    /\ UNCHANGED <<env, panel, parked, handler, pc, userQuery, messages, responseMessage, iterationCount, toolIndex, llmCalls,
                   result, mon>>

EggNext == ResolveEgg

EggSpec == TaskInit /\ [][EggNext]_vars

(***************************************************************************)
(* A twelfth specification: the monitor while the panel is out of reach.   *)
(* From the state the specification begins in, every listing comes back    *)
(* empty, every request for resources comes back null and every power      *)
(* signal comes back false.  The outage begins when the monitor starts,    *)
(* when its first listing has just shown the server installed, or when its *)
(* first resource poll has just reported 'offline': three states of        *)
(* MonSpec.                                                                *)
(***************************************************************************)
EmptyListings(m) == {r \in listServersMonitored(m) : r.data = <<>>}

AbsentResources(serverId) == {r \in getServerResources(serverId) : r.data = None}

RefusedSignals(serverId, signal) == {r \in sendPowerSignal(serverId, signal) : ~r.data}

\* The monitor m when its first listing, answered at once, has shown the server installed.
JustInstalled(m) ==
    [m EXCEPT !.isStillInstalling = FALSE, !.pc = "installed", !.listedInstalled = TRUE,
              !.scenario = ScenarioStep(@, "installed")]

\* The monitor m when its first resource poll, answered at once, has reported 'offline'.
JustOffline(m) ==
    [m EXCEPT !.pc = "signal", !.phase = "AwaitingRunning", !.pending = "start", !.offline = 1,
              !.polled = {m.serverIdentifier}, !.scenario = ScenarioStep(@, "offline")]

OutageStarts ==
    LET started == {StartedMonitor(MonitorFor(CreatedServer(<<"n">>)), channel) : channel \in BOOLEAN}
    IN  IF env.client
        THEN started \cup {JustInstalled(m) : m \in started}
                     \cup {JustOffline(JustInstalled(m)) : m \in started}
        ELSE started

OutageInit ==
    /\ env \in MonitorEnvironments
    /\ userQuery = <<"q">>
    /\ pc = "done"
    /\ messages = <<Message("system", <<0, 0>>, NoCalls), Message("user", <<0, 0>>, NoCalls),
                    Message("assistant", <<0, 0>>, ToolCalls(1, 1)), Message("tool", <<1, 1>>, NoCalls)>>
    /\ responseMessage = [tool_calls |-> None, content |-> UserMessageJson]
    /\ iterationCount = 1
    /\ toolIndex = 2
    /\ llmCalls = 2
    /\ last = NoLast
    /\ result = Some(<<"u">>)
    /\ handler = NoHandler
    /\ parked = NoTask
    /\ panel = NoPanel
    /\ mon \in OutageStarts

MonitorInstallPollInOutage == MonitorInstallPollOf(EmptyListings(mon))

MonitorResourcePollInOutage == MonitorResourcePollOf(AbsentResources(mon.serverIdentifier))

MonitorSendSignalInOutage == MonitorSendSignalOf(RefusedSignals(mon.serverIdentifier, mon.pending))

OutageNext ==
    \/ MonitorInstallPollInOutage
    \/ MonitorInstallCheck
    \/ MonitorInstalled
    \/ MonitorResourcePollInOutage
    \/ MonitorSendSignalInOutage
    \/ MonitorRunCheck

OutageSpec == OutageInit /\ [][OutageNext]_vars

\* The monitor under the scheduling of the event loop, as in MonFairSpec.
OutageFairSpec == OutageSpec /\ WF_vars(OutageNext)

\* The states the outage begins in.
OutageStart == mon \in OutageStarts

(***************************************************************************)
(* A fifth specification: the run and the monitor it starts, side by       *)
(* side.  The run is the one of CreateSpec, under a full configuration,    *)
(* carried on to its answer: the engine's first response asks for one      *)
(* create_pterodactyl_server call, its second carries no tool call.  Once  *)
(* the dispatch has started the monitor, the steps of the monitor (each    *)
(* from one await to the next) interleave freely with those of the run.    *)
(***************************************************************************)
TaskInvocations ==
    {Invocation("create_pterodactyl_server",
                [NoArgs EXCEPT !.server_name = Some(<<"n">>), !.egg_name = e]) :
        e \in {Some(<<"V", "A">>), Some(<<"z">>)}}

TaskResponses == {[tool_calls |-> None, content |-> c] : c \in {<<>>, UserMessageJson}}

ExecuteTaskCall == ExecuteToolCallOf(TaskInvocations, NextPosition)

CallEngineAfterTask == CallEngineOf(TaskResponses)

RunNext ==
    \/ ExecuteTaskCall
    \/ AfterBatch
    \/ CallEngineAfterTask
    \/ EnterIteration
    \/ ReturnAnswer

TaskNext ==
    \/ ExecuteTaskCall
    \/ AfterBatch
    \/ CallEngineAfterTask
    \/ EnterIteration
    \/ ReturnAnswer
    \/ MonitorInstallPoll
    \/ MonitorInstallCheck
    \/ MonitorInstalled
    \/ MonitorResourcePoll
    \/ MonitorSendSignal
    \/ MonitorRunCheck

TaskSpec == TaskInit /\ [][TaskNext]_vars

(***************************************************************************)
(* A sixth specification: a run like that of TaskSpec, alone, from the     *)
(* dispatch of its create_pterodactyl_server call to its answer, the       *)
(* engine's second response carrying any of the texts of Contents.         *)
(***************************************************************************)
AnswerInvocations ==
    {Invocation("create_pterodactyl_server",
                [NoArgs EXCEPT !.server_name = n, !.egg_name = e, !.environment_variables = u]) :
        n \in {None, Some(<<"n">>)},
        e \in {Some(<<"V", "A">>), Some(<<"z">>)},
        u \in {None, Some("K1" :> "u1")}}

AnswerResponses == {[tool_calls |-> None, content |-> c] : c \in Contents}

ExecuteAnswerCall == ExecuteToolCallOf(AnswerInvocations, NextPosition)

CallEngineForAnswer == CallEngineOf(AnswerResponses)

AnswerNext ==
    \/ ExecuteAnswerCall
    \/ AfterBatch
    \/ CallEngineForAnswer
    \/ EnterIteration
    \/ ReturnAnswer

AnswerSpec == TaskInit /\ [][AnswerNext]_vars

(***************************************************************************)
(* The loop of Spec on a few invocations and texts: a listing, arguments   *)
(* that do not parse, a power signal, a server creation.  The fair variant *)
(* is the run under the proviso that every call awaited (of the engine, of *)
(* the panel) returns or fails, after which the run is resumed.            *)
(***************************************************************************)
FewInvocations ==
    {Invocation("list_pterodactyl_servers_basic_info", NoArgs),
     Invocation("list_pterodactyl_servers_basic_info", [NoArgs EXCEPT !.parses = FALSE]),
     Invocation("send_pterodactyl_power_signal", [NoArgs EXCEPT !.serverId = Some(<<"c">>), !.signal = "start"]),
     Invocation("create_pterodactyl_server",
                [NoArgs EXCEPT !.server_name = Some(<<"n">>), !.egg_name = Some(<<"p", "a">>)])}

FewResponses(n) ==
    {[tool_calls |-> None, content |-> c] : c \in {<<>>, <<"h", "i">>}}
    \cup {[tool_calls |-> Some(ToolCalls(n, len)), content |-> <<>>] : len \in 1..MaxBatch}

ExecuteFewCall == ExecuteToolCallOf(FewInvocations, NextPosition)

CallEngineFew == CallEngineOf(FewResponses(llmCalls + 1))

LoopNext ==
    \/ StartRun
    \/ CallEngineFew
    \/ EnterIteration
    \/ ExecuteFewCall
    \/ AfterBatch
    \/ ReturnAnswer

LoopSpec == Init /\ [][LoopNext]_vars

LoopFairSpec == LoopSpec /\ WF_vars(LoopNext)

(***************************************************************************)
(* A ninth specification: the loop of Spec on the tools that read and      *)
(* drive servers, with the client API of the panel configured or not       *)
(* (PTERODACTYL_API_URL and PTERODACTYL_CLIENT_API_KEY both set, or one of *)
(* them missing) and every request to the panel answered or failing.       *)
(***************************************************************************)
GatewayEnvironments ==
    {e \in Environments :
        /\ e.PTERODACTYL_DEFAULT_OWNER_ID = <<"7">>
        /\ e.PTERODACTYL_DEFAULT_NODE_ID = <<"7">>
        /\ e.OPENAI_API_KEY /\ e.app}

GatewayInvocations ==
    {Invocation("list_pterodactyl_servers_basic_info", NoArgs),
     Invocation("get_specific_server_details_and_status", [NoArgs EXCEPT !.serverId = Some(<<"a">>)]),
     Invocation("send_pterodactyl_power_signal", [NoArgs EXCEPT !.serverId = Some(<<"c">>), !.signal = "start"])}

GatewayInit ==
    /\ env \in GatewayEnvironments
    /\ userQuery = <<"q">>
    /\ RunInit
    /\ mon = NoMonitor
    /\ handler = NoHandler
    /\ parked = NoTask
    /\ panel = NoPanel

ExecuteGatewayCall == ExecuteToolCallOf(GatewayInvocations, NextPosition)

\* What the engine returns here: a text, or a batch of tool calls.
GatewayResponses(n) ==
    {[tool_calls |-> None, content |-> <<"h", "i">>]}
    \cup {[tool_calls |-> Some(ToolCalls(n, len)), content |-> <<>>] : len \in 1..MaxBatch}

CallEngineForGateway == CallEngineOf(GatewayResponses(llmCalls + 1))

GatewayNext ==
    \/ StartRun
    \/ CallEngineForGateway
    \/ EnterIteration
    \/ ExecuteGatewayCall
    \/ AfterBatch
    \/ ReturnAnswer

GatewaySpec == GatewayInit /\ [][GatewayNext]_vars

GatewayFairSpec == GatewaySpec /\ WF_vars(GatewayNext)

(***************************************************************************)
(* An eleventh specification: two runs of processUserQueryWithLLM one      *)
(* after the other, for the utterances "q" and "r".  The loop is that of   *)
(* LoopSpec.  When the second call is made the variables of the run hold   *)
(* what the first left behind: the locals of a new call are fresh, and     *)
(* messages keeps the array of the ended run until the new call binds its  *)
(* own, so that a run building on the old conversation would show.         *)
(***************************************************************************)
ConversationInit ==
    /\ env \in TaskEnvironments
    /\ userQuery = <<"q">>
    /\ RunInit
    /\ mon = NoMonitor
    /\ handler = NoHandler
    /\ parked = NoTask
    /\ panel = NoPanel

\* The handler of the next message calls processUserQueryWithLLM.
NewRun ==
    /\ pc = "done"
    /\ userQuery = <<"q">>
    /\ userQuery' = <<"r">>
    /\ pc' = "start"
    /\ responseMessage' = [tool_calls |-> None, content |-> <<>>]
    /\ iterationCount' = 0
    /\ toolIndex' = 0
    /\ llmCalls' = 0
    /\ last' = NoLast
    /\ result' = None
    /\ UNCHANGED <<env, panel, parked, handler, messages, mon>>

ConversationNext ==
    \/ StartRun
    \/ CallEngineFew
    \/ EnterIteration
    \/ ExecuteFewCall
    \/ AfterBatch
    \/ ReturnAnswer
    \/ NewRun

ConversationSpec == ConversationInit /\ [][ConversationNext]_vars

(***************************************************************************)
(* A seventh specification: the Events.MessageCreate handler of index.ts   *)
(* for one message, and the run it awaits.  Each action of the handler     *)
(* goes from one await to the next; message.reply delivers or throws.  The *)
(* run draws its tool calls from a few invocations; while the handler has  *)
(* not called processUserQueryWithLLM the run is at "idle".                *)
(***************************************************************************)
Ping == <<"p", "i", "n", "g">>

\* A text of the engine that is 4000 characters long.
LongText == <<"a text of 4000 characters">>

LongTextLength == 4000

length(text) == IF text = LongText THEN LongTextLength ELSE Len(text)

\* The number of replies an answer is sent in: for (i = 0; i < length; i += 1990) over 2000 characters.
Parts(text) ==
    IF length(text) > 2000
    THEN (length(text) + 1989) \div 1990
    ELSE 1

HandlerInvocations ==
    {Invocation("list_pterodactyl_servers_basic_info", NoArgs),
     Invocation("list_pterodactyl_servers_basic_info", [NoArgs EXCEPT !.parses = FALSE]),
     Invocation("send_pterodactyl_power_signal", [NoArgs EXCEPT !.serverId = Some(<<"c">>), !.signal = "start"])}

HandlerResponses(n) ==
    {[tool_calls |-> None, content |-> c] : c \in {<<>>, <<" ">>, <<"h", "i">>, LongText}}
    \cup {[tool_calls |-> Some(ToolCalls(n, len)), content |-> <<>>] : len \in 1..MaxBatch}

ExecuteHandlerCall == ExecuteToolCallOf(HandlerInvocations, NextPosition)

CallEngineForHandler == CallEngineOf(HandlerResponses(llmCalls + 1))

\* The call processUserQueryWithLLM(message) of the handler.
CallRun(h) ==
    /\ handler' = [h EXCEPT !.pc = "process"]
    /\ pc' = "start"

\* A variant of HandlerReceive: the author of the message is not tested.
HandlerReceiveFromAnyone ==
    /\ handler.pc = "received"
    /\ IF ~handler.mentioned
       THEN handler' = [handler EXCEPT !.pc = "done"] /\ UNCHANGED pc
       ELSE IF toLowerCase(userQuery) = Ping
       THEN handler' = [handler EXCEPT !.pc = "ping"] /\ UNCHANGED pc
       ELSE IF userQuery = <<>>
       THEN handler' = [handler EXCEPT !.pc = "greeting"] /\ UNCHANGED pc
       ELSE IF handler.channel \in {"guild", "dm"}
       THEN handler' = [handler EXCEPT !.pc = "typing"] /\ UNCHANGED pc
       ELSE CallRun(handler)
    /\ UNCHANGED <<env, panel, parked, userQuery, messages, responseMessage, iterationCount, toolIndex, llmCalls, last,
                   result, mon>>

\* The handler up to its first await: the tests on the author, the mention and the content.
\* userQuery is the content without the mention, trimmed, which the handler computes as
\* contentAfterMention.
HandlerReceive ==
    /\ handler.pc = "received"
    /\ IF handler.bot \/ ~handler.mentioned
       THEN handler' = [handler EXCEPT !.pc = "done"] /\ UNCHANGED pc
       ELSE IF toLowerCase(userQuery) = Ping
       THEN handler' = [handler EXCEPT !.pc = "ping"] /\ UNCHANGED pc
       ELSE IF userQuery = <<>>
       THEN handler' = [handler EXCEPT !.pc = "greeting"] /\ UNCHANGED pc
       ELSE IF handler.channel \in {"guild", "dm"}
       THEN handler' = [handler EXCEPT !.pc = "typing"] /\ UNCHANGED pc
       ELSE CallRun(handler)
    /\ UNCHANGED <<env, panel, parked, userQuery, messages, responseMessage, iterationCount, toolIndex, llmCalls, last,
                   result, mon>>

\* await message.reply("Pong!") in its try: an exception is logged.
HandlerPing ==
    /\ handler.pc = "ping"
    /\ \E ok \in BOOLEAN :
          handler' = [handler EXCEPT !.pc = "done",
                                     !.attempts = Append(@, "Pong"),
                                     !.delivered = IF ok THEN Append(@, "Pong") ELSE @,
                                     !.thrown = ~ok]
    /\ UNCHANGED <<env, panel, parked, runVars, mon>>

\* await message.channel.sendTyping() in its try, delivered or not, then the call of the run.
HandlerTyping ==
    /\ handler.pc = "typing"
    /\ CallRun(handler)
    /\ UNCHANGED <<env, panel, parked, userQuery, messages, responseMessage, iterationCount, toolIndex, llmCalls, last,
                   result, mon>>

\* A variant of ProcessingCaught: the error apology attempted in every channel.
ProcessingCaughtEverywhere(h) ==
    LET caught == [h EXCEPT !.pc = "done", !.thrown = TRUE, !.parts = 0]
    IN  {[caught EXCEPT !.attempts = Append(@, "apology"), !.delivered = Append(@, "apology")],
         [caught EXCEPT !.attempts = Append(@, "apology")]}

\* The catch (processingError) of the handler, entered by h when a reply has thrown: the error
\* apology, in its own try, in a channel that is text-based and not DM-based.
ProcessingCaught(h) ==
    LET caught == [h EXCEPT !.pc = "done", !.thrown = TRUE, !.parts = 0]
    IN  IF h.channel = "dm"
        THEN {caught}
        ELSE {[caught EXCEPT !.attempts = Append(@, "apology"), !.delivered = Append(@, "apology")],
              [caught EXCEPT !.attempts = Append(@, "apology")]}

\* await message.reply(text) inside the try of the handler, parts being the replies that remain
\* after it.
Replied(h, kind, parts) ==
    LET tried == [h EXCEPT !.attempts = Append(@, kind)]
    IN  {[tried EXCEPT !.delivered = Append(@, kind),
                       !.parts = parts,
                       !.pc = IF parts > 0 THEN "parts" ELSE "done"]}
        \cup ProcessingCaught(tried)

\* The run has returned: the first reply with the answer, or the fallback message when the
\* answer is null or empty.
HandlerReply ==
    /\ handler.pc = "process"
    /\ pc = "done"
    /\ LET llmResponse == result[1]
       IN  IF llmResponse # <<>>
           THEN handler' \in Replied(handler, "answer", Parts(llmResponse) - 1)
           ELSE handler' \in Replied(handler, "fallback", 0)
    /\ UNCHANGED <<env, panel, parked, runVars, mon>>

\* The next reply of an answer sent in parts.
HandlerNextPart ==
    /\ handler.pc = "parts"
    /\ handler' \in Replied(handler, "answer", handler.parts - 1)
    /\ UNCHANGED <<env, panel, parked, runVars, mon>>

\* await message.reply(greeting), outside any try: an exception rejects the handler's promise.
HandlerGreeting ==
    /\ handler.pc = "greeting"
    /\ \E ok \in BOOLEAN :
          handler' = [handler EXCEPT !.pc = "done",
                                     !.attempts = Append(@, "greeting"),
                                     !.delivered = IF ok THEN Append(@, "greeting") ELSE @,
                                     !.thrown = ~ok,
                                     !.unhandled = ~ok]
    /\ UNCHANGED <<env, panel, parked, runVars, mon>>

HandlerInit ==
    /\ env \in LoopEnvironments
    /\ userQuery \in {<<>>, Ping, <<"P", "i", "n", "g">>, <<"q">>}
    /\ pc = "idle"
    /\ messages = <<>>
    /\ responseMessage = [tool_calls |-> None, content |-> <<>>]
    /\ iterationCount = 0
    /\ toolIndex = 0
    /\ llmCalls = 0
    /\ last = NoLast
    /\ result = None
    /\ mon = NoMonitor
    /\ parked = NoTask
    /\ panel = NoPanel
    /\ \E bot \in BOOLEAN, mentioned \in BOOLEAN, channel \in {"guild", "dm", "voice"} :
          handler = [NoHandler EXCEPT !.pc = "received", !.bot = bot, !.mentioned = mentioned,
                                      !.channel = channel]

HandlerNext ==
    \/ HandlerReceive
    \/ HandlerPing
    \/ HandlerTyping
    \/ StartRun
    \/ CallEngineForHandler
    \/ EnterIteration
    \/ ExecuteHandlerCall
    \/ AfterBatch
    \/ ReturnAnswer
    \/ HandlerReply
    \/ HandlerNextPart
    \/ HandlerGreeting

HandlerSpec == HandlerInit /\ [][HandlerNext]_vars

\* The handler under the scheduling of the event loop: every request awaited (to Discord, to
\* the engine, to the panel) completes, and the continuation that awaits it is then run.
HandlerFairSpec == HandlerSpec /\ WF_vars(HandlerNext)

(***************************************************************************)
(* An eighth specification: the tasks of two messages side by side.  The   *)
(* process has one thread: a task runs from one await to the next, and     *)
(* while it awaits the event loop may resume the other.  The variables of  *)
(* the run, mon and handler hold the task that runs, parked the one that   *)
(* awaits.  The first message (in channel c1) had the server "n" created:  *)
(* its run has returned and its monitor has been polling for 590 s.  The   *)
(* second (in channel c2) had the server "p" created earlier in its run,   *)
(* which is now about to dispatch a tool call.                             *)
(***************************************************************************)
OtherServer == [uuid |-> "uuid-p", identifier |-> <<"p">>, name |-> <<"p">>]

\* A monitor whose listing polls have shown the server installing up to elapsed.
StillInstalling(m, channelId, elapsed) ==
    [m EXCEPT !.channelId = channelId, !.elapsed = elapsed, !.scenario = 1]

LateMs == 590000

ConcurrentInvocations ==
    {Invocation("list_pterodactyl_servers_basic_info", NoArgs),
     Invocation("get_specific_server_details_and_status", [NoArgs EXCEPT !.serverId = Some(<<"a">>)]),
     Invocation("send_pterodactyl_power_signal", [NoArgs EXCEPT !.serverId = Some(<<"c">>), !.signal = "start"])}

ExecuteConcurrentCall == ExecuteToolCallOf(ConcurrentInvocations, NextPosition)

\* The task that runs.
Task ==
    [run |-> [pc |-> pc, userQuery |-> userQuery, messages |-> messages,
              responseMessage |-> responseMessage, iterationCount |-> iterationCount,
              toolIndex |-> toolIndex, llmCalls |-> llmCalls, last |-> last, result |-> result],
     mon |-> mon,
     handler |-> handler]

\* The event loop resumes the task that awaited; the one that ran awaits in its turn.
Resume ==
    /\ parked # NoTask
    /\ parked' = Task
    /\ pc' = parked.run.pc
    /\ userQuery' = parked.run.userQuery
    /\ messages' = parked.run.messages
    /\ responseMessage' = parked.run.responseMessage
    /\ iterationCount' = parked.run.iterationCount
    /\ toolIndex' = parked.run.toolIndex
    /\ llmCalls' = parked.run.llmCalls
    /\ last' = parked.run.last
    /\ result' = parked.run.result
    /\ mon' = parked.mon
    /\ handler' = parked.handler
    /\ UNCHANGED <<env, panel>>

ConcurrentInit ==
    /\ env \in TaskEnvironments
    /\ userQuery = <<"q">>
    /\ pc = "done"
    /\ messages = <<Message("system", <<0, 0>>, NoCalls), Message("user", <<0, 0>>, NoCalls),
                    Message("assistant", <<0, 0>>, ToolCalls(1, 1)), Message("tool", <<1, 1>>, NoCalls)>>
    /\ responseMessage = [tool_calls |-> None, content |-> UserMessageJson]
    /\ iterationCount = 1
    /\ toolIndex = 2
    /\ llmCalls = 2
    /\ last = NoLast
    /\ result = Some(<<"u">>)
    /\ handler = NoHandler
    /\ panel = NoPanel
    /\ mon = StillInstalling(StartedMonitor(MonitorFor(CreatedServer(<<"n">>)), TRUE), "c1", LateMs)
    /\ parked =
          [run |-> [pc |-> "tool", userQuery |-> <<"r">>,
                    messages |-> <<Message("system", <<0, 0>>, NoCalls), Message("user", <<0, 0>>, NoCalls),
                                   Message("assistant", <<0, 0>>, ToolCalls(1, 1)),
                                   Message("tool", <<1, 1>>, NoCalls),
                                   Message("assistant", <<0, 0>>, ToolCalls(2, 1))>>,
                    responseMessage |-> [tool_calls |-> Some(ToolCalls(2, 1)), content |-> <<>>],
                    iterationCount |-> 2, toolIndex |-> 1, llmCalls |-> 2, last |-> NoLast,
                    result |-> None],
           mon |-> StillInstalling(StartedMonitor(MonitorFor(OtherServer), TRUE), "c2", LateMs),
           handler |-> [NoHandler EXCEPT !.channelId = "c2"]]

\* The monitor of the first message as ConcurrentInit has it: a state of MonSpec.
LateMonitor == mon = StillInstalling(StartedMonitor(MonitorFor(CreatedServer(<<"n">>)), TRUE), "c1", LateMs)

ConcurrentNext ==
    \/ Resume
    \/ ExecuteConcurrentCall
    \/ AfterBatch
    \/ CallEngineAfterTask
    \/ EnterIteration
    \/ ReturnAnswer
    \/ MonitorInstallPoll
    \/ MonitorInstallCheck
    \/ MonitorInstalled
    \/ MonitorResourcePoll
    \/ MonitorSendSignal
    \/ MonitorRunCheck

ConcurrentSpec == ConcurrentInit /\ [][ConcurrentNext]_vars

(***************************************************************************)
(* A thirteenth specification: two create_pterodactyl_server dispatches,   *)
(* of the runs of two messages, against one panel.  The dispatch is taken  *)
(* from one await to the next: up to the answer of findAvailableAllocation *)
(* (CreateLookup), then createServer and what follows it (CreateRequest);  *)
(* between the two the event loop may resume the other task.  Here the     *)
(* panel is followed: its allocations on the default node, one of which a  *)
(* accepted create request takes, and the create requests it received.     *)
(* The egg was resolved before; "q" asks for the server "n", "r" for "p".  *)
(***************************************************************************)
RaceEgg == EggDetails(EggVa, <<>>)

RaceArgs ==
    [NoArgs EXCEPT !.server_name = Some(IF userQuery = <<"q">> THEN <<"n">> ELSE <<"p">>),
                   !.egg_name = Some(<<"V", "a">>)]

\* findAvailableAllocation(nodeId) when the panel holds allocations.
findAvailableAllocationAmong(nodeId, allocations) ==
    IF ~env.app \/ nodeId = 0
    THEN {[http |-> FALSE, ok |-> FALSE, data |-> None]}
    ELSE {[http |-> TRUE, ok |-> FALSE, data |-> None],
          [http |-> TRUE, ok |-> TRUE, data |-> FirstUnassigned(allocations)]}

\* The allocation the dispatch under way has found.
Found(run) == run.last.calls[Len(run.last.calls)].returned[1]

\* The dispatch up to the answer of findAvailableAllocation: without an allocation the error
\* payload is the tool message.
CreateLookup ==
    /\ pc = "tool"
    /\ LET toolCall == responseMessage.tool_calls[1][NextPosition]
       IN  \E a \in findAvailableAllocationAmong(PTERO_DEFAULT_NODE_ID[1], panel.allocations) :
              LET calls == <<Returning(Call("findAvailableAllocation", a.http, <<>>), a.data)>>
              IN  IF a.data = None
                  THEN /\ last' = [id |-> toolCall.id, name |-> "create_pterodactyl_server",
                                   args |-> RaceArgs, appended |-> TRUE]
                                  @@ Outcome("backend", Content("no_allocation", <<>>, <<>>), calls)
                       /\ messages' = Append(messages, Message("tool", toolCall.id, NoCalls))
                       /\ toolIndex' = toolIndex + 1
                       /\ pc' = "batch"
                  ELSE /\ last' = [id |-> toolCall.id, name |-> "create_pterodactyl_server",
                                   args |-> RaceArgs, appended |-> FALSE]
                                  @@ Outcome("none", Content("none", <<>>, <<>>), calls)
                       /\ pc' = "allocated"
                       /\ UNCHANGED <<messages, toolIndex>>
    /\ UNCHANGED <<env, panel, parked, handler, userQuery, responseMessage, iterationCount, llmCalls, result, mon>>

\* The panel after a create request for the allocation id, accepted or not.
Requested(id, accepted) ==
    [allocations |-> [k \in 1..Len(panel.allocations) |->
                         IF accepted /\ panel.allocations[k].id = id
                         THEN Allocation(id, TRUE)
                         ELSE panel.allocations[k]],
     creates |-> Append(panel.creates, [allocation |-> id, accepted |-> accepted])]

\* createServer with the allocation found, and what follows it.  The panel accepts a request
\* only for an allocation that is still unassigned.
CreateRequest ==
    /\ pc = "allocated"
    /\ LET options == CreationOptions(last.args.server_name, RaceEgg, Found(Task.run), None)
           free == \E k \in 1..Len(panel.allocations) :
                       /\ panel.allocations[k].id = options.allocation.default
                       /\ ~panel.allocations[k].assigned
       IN  \E o \in CreateAndMonitor(options, last.calls) :
              /\ o.monitor # None => free
              /\ last' = [id |-> last.id, name |-> last.name, args |-> last.args, appended |-> TRUE] @@ o
              /\ panel' = IF o.calls[Len(o.calls)].http
                          THEN Requested(options.allocation.default, o.monitor # None)
                          ELSE panel
              /\ IF o.monitor # None
                 THEN \E channel \in ChannelKinds : mon' = StartedMonitor(o.monitor[1], channel)
                 ELSE UNCHANGED mon
    /\ messages' = Append(messages, Message("tool", last.id, NoCalls))
    /\ toolIndex' = toolIndex + 1
    /\ pc' = "batch"
    /\ UNCHANGED <<env, parked, handler, userQuery, responseMessage, iterationCount, llmCalls, result>>

RaceInit ==
    /\ env \in TaskEnvironments
    /\ \E l \in AllocationLists : panel = [allocations |-> l, creates |-> <<>>]
    /\ userQuery = <<"q">>
    /\ pc = "tool"
    /\ messages = <<Message("system", <<0, 0>>, NoCalls), Message("user", <<0, 0>>, NoCalls),
                    Message("assistant", <<0, 0>>, ToolCalls(1, 1))>>
    /\ responseMessage = [tool_calls |-> Some(ToolCalls(1, 1)), content |-> <<>>]
    /\ iterationCount = 1
    /\ toolIndex = 1
    /\ llmCalls = 1
    /\ last = NoLast
    /\ result = None
    /\ mon = NoMonitor
    /\ handler = NoHandler
    /\ parked =
          [run |-> [pc |-> "tool", userQuery |-> <<"r">>,
                    messages |-> <<Message("system", <<0, 0>>, NoCalls), Message("user", <<0, 0>>, NoCalls),
                                   Message("assistant", <<0, 0>>, ToolCalls(1, 1))>>,
                    responseMessage |-> [tool_calls |-> Some(ToolCalls(1, 1)), content |-> <<>>],
                    iterationCount |-> 1, toolIndex |-> 1, llmCalls |-> 1, last |-> NoLast,
                    result |-> None],
           mon |-> NoMonitor,
           handler |-> [NoHandler EXCEPT !.channelId = "c2"]]

RaceNext ==
    \/ Resume
    \/ CreateLookup
    \/ CreateRequest
    \/ AfterBatch

RaceSpec == RaceInit /\ [][RaceNext]_vars

(***************************************************************************)
(* A fourteenth specification: the run of an utterance that the engine     *)
(* answers with one get_online_status_for_all_servers call and then, given *)
(* the tool result, with any of the texts of Contents.                     *)
(***************************************************************************)
StatusInvocations == {Invocation("get_online_status_for_all_servers", NoArgs)}

StatusResponses(n) ==
    IF n = 1
    THEN {[tool_calls |-> Some(ToolCalls(1, 1)), content |-> <<>>]}
    ELSE {[tool_calls |-> None, content |-> c] : c \in Contents}

\* The configurations explored: with or without the engine's key and the client API's.
StatusEnvironments ==
    {e \in Environments :
        /\ e.PTERODACTYL_DEFAULT_OWNER_ID = <<"7">>
        /\ e.PTERODACTYL_DEFAULT_NODE_ID = <<"7">>
        /\ e.app}

StatusInit ==
    /\ env \in StatusEnvironments
    /\ userQuery \in {<<>>, <<"q">>}
    /\ RunInit
    /\ mon = NoMonitor
    /\ handler = NoHandler
    /\ parked = NoTask
    /\ panel = NoPanel

ExecuteStatusCall == ExecuteToolCallOf(StatusInvocations, NextPosition)

CallEngineForStatus == CallEngineOf(StatusResponses(llmCalls + 1))

StatusNext ==
    \/ StartRun
    \/ CallEngineForStatus
    \/ EnterIteration
    \/ ExecuteStatusCall
    \/ AfterBatch
    \/ ReturnAnswer

StatusSpec == StatusInit /\ [][StatusNext]_vars

(***************************************************************************)
(* A fifteenth specification: the handler from the return of the run to    *)
(* its last reply, the replies recorded with their text.  The run returned *)
(* the engine's first response; a text is the sequence of the codes of its *)
(* characters (String.length counts them), here 1, 2, 3, ... so that every *)
(* position is told apart.                                                 *)
(***************************************************************************)
Text(n) == [k \in 1..n |-> k]

AnswerLengths == {0, 1, 1990, 1991, 2000, 2001, 3980, 3981, 5970, 5971}

\* String.prototype.substring(from, to) for 0 <= from <= to, the string's length capping both.
substring(s, from, to) ==
    LET start == IF from < Len(s) THEN from ELSE Len(s)
        end == IF to < Len(s) THEN to ELSE Len(s)
    IN  SubSeq(s, start + 1, end)

\* for (let i = 0; i < llmResponse.length; i += 1990) parts.push(llmResponse.substring(i, i + 1990)),
\* from the value i of the index on.
RECURSIVE PartsFrom(_, _)
PartsFrom(llmResponse, i) ==
    IF i < Len(llmResponse)
    THEN <<substring(llmResponse, i, i + 1990)>> \o PartsFrom(llmResponse, i + 1990)
    ELSE <<>>

\* A variant of Replies: the answer sent whole whatever its length.
RepliesUnsplit(llmResponse) == <<llmResponse>>

\* The texts a non-empty answer is replied with, in order.
Replies(llmResponse) ==
    IF Len(llmResponse) > 2000 THEN PartsFrom(llmResponse, 0) ELSE <<llmResponse>>

\* The run has returned: the first reply with the answer or its first part, or the fallback
\* message when the answer is null or empty.
SplitReply ==
    /\ handler.pc = "process"
    /\ pc = "done"
    /\ LET llmResponse == result[1]
       IN  IF llmResponse # <<>>
           THEN handler' \in Replied(handler, Replies(llmResponse)[1], Len(Replies(llmResponse)) - 1)
           ELSE handler' \in Replied(handler, "fallback", 0)
    /\ UNCHANGED <<env, panel, parked, runVars, mon>>

\* The next reply of an answer sent in parts.
SplitNextPart ==
    /\ handler.pc = "parts"
    /\ LET parts == Replies(result[1])
       IN  handler' \in Replied(handler, parts[Len(parts) + 1 - handler.parts], handler.parts - 1)
    /\ UNCHANGED <<env, panel, parked, runVars, mon>>

SplitInit ==
    /\ env \in TaskEnvironments
    /\ userQuery = <<"q">>
    /\ pc = "done"
    /\ messages = <<Message("system", <<0, 0>>, NoCalls), Message("user", <<0, 0>>, NoCalls)>>
    /\ \E n \in AnswerLengths :
          /\ responseMessage = [tool_calls |-> None, content |-> Text(n)]
          /\ result = Some(Text(n))
    /\ iterationCount = 0
    /\ toolIndex = 0
    /\ llmCalls = 1
    /\ last = NoLast
    /\ mon = NoMonitor
    /\ parked = NoTask
    /\ panel = NoPanel
    /\ \E channel \in {"guild", "dm", "voice"} :
          handler = [NoHandler EXCEPT !.pc = "process", !.mentioned = TRUE, !.channel = channel]

SplitNext ==
    \/ SplitReply
    \/ SplitNextPart

SplitSpec == SplitInit /\ [][SplitNext]_vars

(***************************************************************************)
(* A sixteenth specification: createServer and what follows it in the      *)
(* dispatch of create_pterodactyl_server, for creation options of which    *)
(* one may be missing, zero or empty, with or without the application      *)
(* API's key.                                                              *)
(***************************************************************************)
\* Options as the dispatch builds them, with or without variables given by the user.
CompleteOptions ==
    {CreationOptions(Some(<<"n">>), RaceEgg, Allocation(2, FALSE), u) : u \in {None, Some("K1" :> "u1")}}

RequestedOptions ==
    UNION {{complete,
            [complete EXCEPT !.name = None],
            [complete EXCEPT !.name = Some(<<>>)],
            [complete EXCEPT !.user = 0],
            [complete EXCEPT !.egg = 0],
            [complete EXCEPT !.docker_image = ""],
            [complete EXCEPT !.startup = ""],
            [complete EXCEPT !.allocation = [default |-> 0]]} : complete \in CompleteOptions}

ValidationEnvironments ==
    {e \in Environments :
        /\ e.PTERODACTYL_DEFAULT_OWNER_ID = <<"7">>
        /\ e.PTERODACTYL_DEFAULT_NODE_ID = <<"7">>
        /\ e.OPENAI_API_KEY /\ e.client}

ValidationInit ==
    /\ env \in ValidationEnvironments
    /\ userQuery = <<"q">>
    /\ pc = "tool"
    /\ messages = <<Message("system", <<0, 0>>, NoCalls), Message("user", <<0, 0>>, NoCalls),
                    Message("assistant", <<0, 0>>, ToolCalls(1, 1))>>
    /\ responseMessage = [tool_calls |-> Some(ToolCalls(1, 1)), content |-> <<>>]
    /\ iterationCount = 1
    /\ toolIndex = 1
    /\ llmCalls = 1
    /\ last = NoLast
    /\ result = None
    /\ mon = NoMonitor
    /\ handler = NoHandler
    /\ parked = NoTask
    /\ panel = NoPanel

\* The dispatch of create_pterodactyl_server from await createServer(creationOptions) on, for
\* the options drawn, and messages.push of the tool message.
CreateWithOptions ==
    /\ pc = "tool"
    /\ LET toolCall == responseMessage.tool_calls[1][NextPosition]
       IN  \E options \in RequestedOptions : \E o \in CreateAndMonitor(options, <<>>) :
              /\ last' = [id |-> toolCall.id, name |-> "create_pterodactyl_server",
                          args |-> [NoArgs EXCEPT !.server_name = options.name,
                                                  !.egg_name = Some(<<"V", "a">>)],
                          appended |-> TRUE] @@ o
              /\ IF o.monitor # None
                 THEN \E channel \in ChannelKinds : mon' = StartedMonitor(o.monitor[1], channel)
                 ELSE UNCHANGED mon
    /\ messages' = Append(messages, Message("tool", responseMessage.tool_calls[1][NextPosition].id, NoCalls))
    /\ toolIndex' = toolIndex + 1
    /\ pc' = "batch"
    /\ UNCHANGED <<env, panel, parked, handler, userQuery, responseMessage, iterationCount, llmCalls, result>>

ValidationNext ==
    \/ CreateWithOptions
    \/ AfterBatch
    \/ CallEngineForAnswer
    \/ EnterIteration
    \/ ReturnAnswer

ValidationSpec == ValidationInit /\ [][ValidationNext]_vars

(***************************************************************************)
(* Properties of two tasks side by side, checked under ConcurrentSpec.     *)
(***************************************************************************)
\* The conversation of the first message when its run returned, and that of the second when
\* ConcurrentSpec begins.
FirstConversation ==
    <<Message("system", <<0, 0>>, NoCalls), Message("user", <<0, 0>>, NoCalls),
      Message("assistant", <<0, 0>>, ToolCalls(1, 1)), Message("tool", <<1, 1>>, NoCalls)>>

SecondConversation == Append(FirstConversation, Message("assistant", <<0, 0>>, ToolCalls(2, 1)))

\* The task t is that of the first message or that of the second, whole: utterance,
\* conversation, channel and server go together; its monitor has polled and signalled no
\* server but its own and has notified no channel but its own.
OwnState(t) ==
    /\ t.mon.polled \subseteq {t.mon.serverIdentifier}
    /\ t.mon.notified \subseteq {t.mon.channelId}
    /\ t.mon.channelId = t.handler.channelId
    /\ \/ /\ t.run.userQuery = <<"q">>
          /\ t.handler.channelId = "c1"
          /\ t.mon.serverIdentifier = <<"n">>
          /\ t.run.messages = FirstConversation
       \/ /\ t.run.userQuery = <<"r">>
          /\ t.handler.channelId = "c2"
          /\ t.mon.serverIdentifier = <<"p">>
          /\ Len(t.run.messages) >= Len(SecondConversation)
          /\ SubSeq(t.run.messages, 1, Len(SecondConversation)) = SecondConversation

\* A step is either the event loop passing from one task to the other, both left as they
\* were, or a step of the run or of the monitor of the task that runs: it leaves the task
\* that awaits, the handler, and the other of run and monitor as they were.
OwnStep ==
    \/ parked' = Task /\ Task' = parked
    \/ /\ parked' = parked
       /\ handler' = handler
       /\ mon' = mon \/ runVars' = runVars

\* C25: under every interleaving of the two tasks each monitor polls and signals only the
\* server it was started for and notifies only the channel of its message, the conversation
\* of each run holds only what that run put there, and no step of one task changes the
\* state of the other.
C25_TasksAreIsolated == [](OwnState(Task) /\ OwnState(parked) /\ Task # parked) /\ [][OwnStep]_vars

\* Both monitors have found their servers running and said so, each in its own channel,
\* while the run of the second message went on with its conversation.
C25_Witness ==
    /\ mon.serverIdentifier = <<"p">> /\ mon.polled = {<<"p">>} /\ mon.notified = {"c2"}
    /\ parked.mon.polled = {<<"n">>} /\ parked.mon.notified = {"c1"}
    /\ mon.phase = "Succeeded" /\ parked.mon.phase = "Succeeded"
    /\ Len(messages) > Len(SecondConversation)
    /\ pc = "done"

(***************************************************************************)
(* Properties of two creations side by side, checked under RaceSpec.       *)
(***************************************************************************)
\* Both dispatches await createServer, each with the allocation it found.
BothAllocated == pc = "allocated" /\ parked.run.pc = "allocated"

\* C31: two create_pterodactyl_server dispatches under way at once never select the same
\* free allocation, and no create request carries the allocation id of another.
C31_AllocationsDoNotCollide ==
    /\ (BothAllocated => Found(Task.run).id # Found(parked.run).id)
    /\ \A i, j \in 1..Len(panel.creates) :
          i # j => panel.creates[i].allocation # panel.creates[j].allocation

(***************************************************************************)
(* Properties of the orchestration loop, checked under Spec.               *)
(***************************************************************************)
ToolMessagesAfter(a) ==
    {k \in (a + 1)..Len(messages) :
        /\ messages[k].role = "tool"
        /\ \A j \in (a + 1)..k : messages[j].role = "tool"}

AssistantPositions == {a \in 1..Len(messages) : messages[a].role = "assistant"}

RequestedCalls(a) == messages[a].tool_calls

\* C1: a run makes at most maxIterations (5) calls to the reasoning engine, the initial one
\* included; when the batch of the iteration that reaches the cap has been executed the run ends
\* with the loop apology, and once a result is returned no tool call is executed any more.
C1_EngineCallsCapped ==
    /\ llmCalls <= maxIterations
    /\ iterationCount <= maxIterations
    /\ iterationCount <= llmCalls
    /\ (pc = "call" => iterationCount < maxIterations)
    /\ (result # None => pc = "done")
    /\ (result = Some(LoopApology) =>
           /\ llmCalls = maxIterations
           /\ iterationCount = maxIterations
           /\ Cardinality(AssistantPositions) = maxIterations
           /\ \A a \in AssistantPositions :
                 Cardinality(ToolMessagesAfter(a)) = Len(RequestedCalls(a)))
    /\ (pc = "done" /\ iterationCount = maxIterations /\ last.appended
           /\ toolIndex > Len(responseMessage.tool_calls[1])
        => result = Some(LoopApology))

C1_Witness ==
    /\ pc = "done"
    /\ result = Some(LoopApology)
    /\ llmCalls = maxIterations
    /\ last.appended

FailuresOfC2 == {"backend", "resolution", "exception", "arguments"}

\* C2: every failing invocation (backend failure, resolution failure, exception in the dispatch,
\* arguments that cannot be parsed) has a tool-result appended to the record under its call id,
\* carrying an error payload (or, for a backend failure, the empty, absent or false result the
\* gateway turned it into), and the run goes on: it is not ended by the failure.
C2_FailureBecomesErrorResult ==
    last.fail \in FailuresOfC2 =>
        /\ last.appended
        /\ messages[Len(messages)].role = "tool"
        /\ messages[Len(messages)].tool_call_id = last.id
        /\ last.content.error # "none" \/ last.fail = "backend"
        /\ result \in {None, Some(LoopApology)}

CallsOf(op) == {k \in 1..Len(last.calls) : last.calls[k].op = op}

\* The invocation dispatched last named a server to one of the two tools that resolve one.
ServerToolExecuted ==
    /\ last.appended
    /\ last.name \in {"get_specific_server_details_and_status", "send_pterodactyl_power_signal"}
    /\ last.args.serverId # None

\* What the resolver was asked, on which listing, and what it resolved.
Query == last.args.serverId[1]

ListingResolved == last.calls[1].returned

IdentifierMatches == {k \in 1..Len(ListingResolved) : ListingResolved[k].identifier = Query}

NameMatches ==
    {k \in 1..Len(ListingResolved) : includes(toLowerCase(ListingResolved[k].name), toLowerCase(Query))}

AmbiguousQuery == IdentifierMatches = {} /\ Cardinality(NameMatches) >= 2

EngineFailed == last.fail = "engine"

FinalReturned == pc = "done" /\ llmCalls >= 1 /\ last = NoLast

\* C17 as stated, the text taken without the white space around it: a run that leaves the loop
\* returns the fallback apology when the last response has no text, and the text of the response
\* when it has one.
C17_Original ==
    FinalReturned =>
        result = IF responseMessage.content = <<>>
                 THEN Some(FallbackApology)
                 ELSE Some(trim(responseMessage.content))

\* C17: a run that leaves the loop does so on a response without tool calls; it returns the
\* fallback apology when the response has no text; the user_message of the text when the text is
\* JSON holding one; and otherwise the text without the white space around it; and a run that
\* has returned takes no further step.
C17_FinalAnswerOfLastResponse ==
    /\ (pc = "final" => responseMessage.tool_calls = None)
    /\ (FinalReturned =>
           /\ responseMessage.tool_calls = None
           /\ result = IF responseMessage.content = <<>> THEN Some(FallbackApology)
                        ELSE IF responseMessage.content = UserMessageJson THEN Some(<<"u">>)
                        ELSE Some(trim(responseMessage.content)))
    /\ (FinalReturned /\ responseMessage.content = <<" ", "h", "i", " ">> => result = Some(<<"h", "i">>))
    /\ (pc = "done" => result # None /\ ~ENABLED Next)

C17_Witness ==
    /\ FinalReturned
    /\ llmCalls = 2
    /\ responseMessage.content = UserMessageJson
    /\ result = Some(<<"u">>)

\* C18: an invocation whose name is that of no tool makes no gateway call and has an 'Unknown
\* function' error payload appended as the tool result of its call id, and the run goes on.
C18_UnknownFunctionIsRecoverable ==
    last.id # <<0, 0>> /\ last.name \notin ToolNames =>
        /\ last.calls = <<>>
        /\ last.appended
        /\ last.content.error = "unknown_function"
        /\ messages[Len(messages)].role = "tool"
        /\ messages[Len(messages)].tool_call_id = last.id
        /\ result \in {None, Some(LoopApology)}

(***************************************************************************)
(* Properties of the loop, checked under LoopSpec.                         *)
(***************************************************************************)
FixedApologies == {Unavailable, LoopApology, FallbackApology, GenericApology}

RunEnded == pc = "done"

ServerIds == {<<>>, <<"a">>, <<"c">>}

\* What listServers, getServerResources and sendPowerSignal hand back when they issued no
\* request or the request failed: [], null, false.
DegradedResults ==
    /\ \A r \in listServers : (~r.http \/ ~r.ok) => r.data = <<>>
    /\ \A id \in ServerIds : \A r \in getServerResources(id) : (~r.http \/ ~r.ok) => r.data = None
    /\ \A id \in ServerIds, signal \in PowerSignals :
          \A r \in sendPowerSignal(id, signal) : (~r.http \/ ~r.ok) => r.data = FALSE

\* Without the base URL or the client credential none of the three issues a request.
NoRequestUnconfigured ==
    ~env.client =>
        /\ \A r \in listServers : ~r.http
        /\ \A id \in ServerIds : \A r \in getServerResources(id) : ~r.http
        /\ \A id \in ServerIds, signal \in PowerSignals : \A r \in sendPowerSignal(id, signal) : ~r.http
        /\ \A k \in 1..Len(last.calls) : ~last.calls[k].http

\* The dispatch of the last tool call met a request that failed or was not issued.
BackendFailed == last.fail = "backend"

\* The payload of the tool message after a failure: an empty list, an absent state, success
\* false, or the error of a server that the empty listing could not resolve.
DegradedPayload ==
    CASE last.content.error # "none" ->
            last.content.error \in {"not_found_or_ambiguous", "not_found_or_ambiguous_for_power_signal"}
      [] last.name = "list_pterodactyl_servers_basic_info" ->
            last.content.body = <<>>
      [] last.name = "get_specific_server_details_and_status" -> last.content.body = None
      [] last.name = "send_pterodactyl_power_signal" -> ~last.content.body[1].success
      [] OTHER -> FALSE

\* C26: listServers, getServerResources and sendPowerSignal return [], null and false when
\* the client API is not configured (and then issue no request) or the request fails; the
\* dispatch that met the failure throws nothing, its tool message is appended to the
\* conversation, and the run goes on to return a string.
C26_BackendFailureIsAnEmptyResult ==
    /\ [](DegradedResults /\ NoRequestUnconfigured)
    /\ [](BackendFailed =>
             /\ last.appended
             /\ messages[Len(messages)] = Message("tool", last.id, NoCalls)
             /\ DegradedPayload
             /\ result \in {None, Some(LoopApology)})
    /\ (BackendFailed ~> RunEnded /\ result # None)

\* Without the client credential a listing was asked for: no request went out, the tool
\* message held an empty list, and the run has returned the engine's answer.
C26_Witness ==
    /\ ~env.client
    /\ RunEnded
    /\ result = Some(<<"h", "i">>)
    /\ Len(messages) >= 4
    /\ messages[4].role = "tool"

(***************************************************************************)
(* Properties of the conversation, checked under ConversationSpec.         *)
(***************************************************************************)
Seed == <<Message("system", <<0, 0>>, NoCalls), Message("user", <<0, 0>>, NoCalls)>>

\* The run is about to call the reasoning engine.
AtEngineCall == pc = "call"

\* messages is the seed followed by groups, one for each iteration of the run so far: an
\* assistant message that requests tool calls, then the tool messages of exactly those calls,
\* in their order.
SeedThenGroups ==
    /\ Len(messages) >= 2
    /\ SubSeq(messages, 1, 2) = Seed
    /\ \A k \in 3..Len(messages) : messages[k].role \in {"assistant", "tool"}
    /\ Cardinality(AssistantPositions) = iterationCount
    /\ \A a \in AssistantPositions :
          /\ Len(RequestedCalls(a)) >= 1
          /\ Cardinality(ToolMessagesAfter(a)) = Len(RequestedCalls(a))
          /\ \A k \in ToolMessagesAfter(a) : messages[k].tool_call_id = RequestedCalls(a)[k - a].id
    /\ \A k \in 3..Len(messages) :
          messages[k].role = "tool" => \E a \in AssistantPositions : k \in ToolMessagesAfter(a)

\* A step of a run that has bound its messages leaves what they hold in place and appends at
\* most one message; the step that starts a run binds messages to the seed, whatever the run
\* before left.
GrowsByAppending ==
    IF pc = "start"
    THEN messages' = Seed \/ (pc' = "done" /\ messages' = messages)
    ELSE /\ Len(messages') \in {Len(messages), Len(messages) + 1}
         /\ SubSeq(messages', 1, Len(messages)) = messages

\* C28: the conversation of a run starts as [system instruction, user utterance] and then
\* only grows by appending; whenever the run calls the reasoning engine it is that seed
\* followed by groups of one assistant message with tool calls and the tool messages of
\* exactly those calls; and a run starts from the seed alone, with nothing of an earlier run.
C28_ConversationGrowsInGroups ==
    /\ [](AtEngineCall => SeedThenGroups)
    /\ [](pc \notin {"start", "done"} => Len(messages) >= 2 /\ SubSeq(messages, 1, 2) = Seed)
    /\ [][GrowsByAppending]_vars

\* The second run is about to make its third engine call, after two batches of its own.
C28_Witness ==
    /\ userQuery = <<"r">>
    /\ AtEngineCall
    /\ iterationCount = 2
    /\ llmCalls = 2
    /\ Len(messages) = 2 + 1 + MaxBatch + 1 + 1

(***************************************************************************)
(* Properties of the cap of the loop, checked under LoopSpec.              *)
(***************************************************************************)
\* The first maxIterations responses of the engine have each requested tool calls: the loop
\* has pushed that many assistant messages.
FiveResponsesRequestedCalls ==
    /\ iterationCount = maxIterations
    /\ Cardinality(AssistantPositions) = maxIterations

\* C29: a run returns the loop apology exactly when each of its first five engine responses
\* requested tool calls; it has then made exactly five engine calls and executed five
\* batches, every call of the fifth included, before returning.
C29_LoopApologyIffFiveBatches ==
    RunEnded =>
        /\ (result = Some(LoopApology) <=> FiveResponsesRequestedCalls)
        /\ (result = Some(LoopApology) =>
               /\ llmCalls = maxIterations
               /\ \A a \in AssistantPositions :
                     Cardinality(ToolMessagesAfter(a)) = Len(RequestedCalls(a)))

\* The part of C29 that does not depend on the arguments of the fifth batch.
LoopApologyOnlyAfterFiveBatches ==
    RunEnded =>
        /\ (result = Some(LoopApology) <=> FiveResponsesRequestedCalls /\ last.fail # "arguments")
        /\ (result = Some(LoopApology) =>
               /\ llmCalls = maxIterations
               /\ \A a \in AssistantPositions :
                     Cardinality(ToolMessagesAfter(a)) = Len(RequestedCalls(a)))

(***************************************************************************)
(* Properties of a status query, checked under StatusSpec.                 *)
(***************************************************************************)
\* The status call was dispatched and its tool message appended.
StatusAnswered == last.appended /\ last.name = "get_online_status_for_all_servers"

\* The run has returned on the engine's second response, which had text.
TextReturned == pc = "done" /\ llmCalls >= 2 /\ last = NoLast /\ responseMessage.content # <<>>

\* The run made two engine calls and one batch of one call, answered by its tool message.
TwoCallsOneBatch ==
    /\ llmCalls = 2
    /\ iterationCount = 1
    /\ Len(messages) = 4
    /\ messages[3].role = "assistant" /\ Len(messages[3].tool_calls) = 1
    /\ messages[4].role = "tool" /\ messages[4].tool_call_id = messages[3].tool_calls[1].id

\* The payload has one entry per server of the listing returned, in listing order.
EntryPerServer ==
    IF last.calls = <<>>
    THEN last.content.body = <<>>
    ELSE LET listing == last.calls[1].returned
         IN  /\ last.calls[1].op = "listServers"
             /\ Len(last.calls) = Len(listing) + 1
             /\ Len(last.content.body) = Len(listing)
             /\ \A k \in 1..Len(listing) :
                   /\ last.content.body[k].identifier = listing[k].identifier
                   /\ last.content.body[k].name = listing[k].name
                   /\ last.calls[k + 1].op = "getServerResources"
                   /\ last.calls[k + 1].id = listing[k].identifier

\* C33 as stated, the text taken without the white space around it: the run returns the text of
\* the second response after two engine calls and one batch, and every entry of the tool result
\* has the state the panel reported for its server.
C33_Original ==
    /\ (TextReturned => TwoCallsOneBatch /\ result = Some(trim(responseMessage.content)))
    /\ (StatusAnswered =>
           /\ EntryPerServer
           /\ \A k \in 1..Len(last.content.body) :
                 /\ last.calls[k + 1].returned # None
                 /\ last.content.body[k].current_state = last.calls[k + 1].returned[1])

\* C33: when the first response requests one status call and the second has text, the run makes
\* two engine calls and one batch and returns the user_message of the text when the text is JSON
\* holding one, otherwise the text without the white space around it; the tool result has one
\* entry per server of the listing, in listing order, whose state is the one the resources
\* request returned, or 'unknown' when that request failed; it is empty when the listing is
\* empty, failed or was not requested.
C33_StatusQueryInTwoCalls ==
    /\ (TextReturned =>
           /\ TwoCallsOneBatch
           /\ result = IF responseMessage.content = UserMessageJson THEN Some(<<"u">>)
                        ELSE Some(trim(responseMessage.content)))
    /\ (StatusAnswered =>
           /\ EntryPerServer
           /\ pc \in {"batch", "call"}
           /\ messages[Len(messages)] = Message("tool", last.id, NoCalls)
           /\ (~env.client => last.calls = <<>>)
           /\ \A k \in 1..Len(last.content.body) :
                 last.content.body[k].current_state =
                     IF last.calls[k + 1].returned # None
                     THEN last.calls[k + 1].returned[1]
                     ELSE "unknown")

C33_Witness ==
    /\ TextReturned
    /\ TwoCallsOneBatch
    /\ responseMessage.content = <<" ", "h", "i", " ">>
    /\ result = Some(<<"h", "i">>)

\* A tool result of two entries, the state of the second not known.
StatusListed ==
    /\ StatusAnswered
    /\ Len(last.content.body) = 2
    /\ last.content.body[1].current_state = "running"
    /\ last.content.body[2].current_state = "unknown"

(***************************************************************************)
(* Properties of resolveServerId, checked under ResolveSpec.               *)
(***************************************************************************)
Resolved == last.name = "resolveServerId"

Resolution == last.content.body

\* C13: a query that is the identifier of a listed server resolves to that identifier, however
\* many listed servers have a name containing the query.
C13_IdentifierWins ==
    Resolved /\ IdentifierMatches # {} => Resolution = Some(Query)

C13_Witness ==
    /\ Resolved
    /\ Query = <<"a">>
    /\ ListingResolved = <<SrvB, SrvC, SrvA>>
    /\ Cardinality(NameMatches) = 2
    /\ Resolution = Some(<<"a">>)

\* C14: for a query that is the identifier of no listed server, the resolver returns the server
\* whose name contains the query, without regard to case, when there is exactly one; the
\* not-found outcome (null) when there is none; and, when there are several, an outcome that is
\* neither a server nor the not-found outcome.
C14_AmbiguousIsNotNotFound ==
    Resolved /\ IdentifierMatches = {} =>
        /\ (Cardinality(NameMatches) = 1 =>
               \A k \in NameMatches : Resolution = Some(ListingResolved[k].identifier))
        /\ (NameMatches = {} => Resolution = None)
        /\ (Cardinality(NameMatches) >= 2 =>
               /\ Resolution # None
               /\ \A k \in 1..Len(ListingResolved) : Resolution # Some(ListingResolved[k].identifier))

(***************************************************************************)
(* Properties of the egg search, checked under EggSpec.                    *)
(***************************************************************************)
EggSearched == last.name = "FindEgg"

EggQuery == toLowerCase(last.args.egg_name[1])

CatalogSearched == last.calls[1].returned

\* The nest at position k is within the category filter: no nest was named, or it bears the name.
InCategory(k) ==
    last.args.nest_name = None \/ toLowerCase(CatalogSearched[k].name) = toLowerCase(last.args.nest_name[1])

\* The eggs, as <<position of the nest, position of the egg>>, within the category filter
\* whose name contains the query, without regard to case.
EggMatches ==
    UNION {{<<k, j>> : j \in {i \in 1..Len(CatalogSearched[k].eggs) :
                                 includes(toLowerCase(CatalogSearched[k].eggs[i].name), EggQuery)}} :
              k \in {n \in 1..Len(CatalogSearched) : InCategory(n)}}

EggAt(p) == [nest |-> CatalogSearched[p[1]], egg |-> CatalogSearched[p[1]].eggs[p[2]]]

\* C27: the egg search resolves a type name as resolveServerId resolves a server name: the
\* egg within the category filter whose name contains the query, without regard to case,
\* when there is exactly one; the not-found outcome when there is none; and, when there are
\* several, an outcome that is neither an egg nor the not-found outcome.
C27_EggResolvedAsServers ==
    EggSearched =>
        /\ (Cardinality(EggMatches) = 1 => \A p \in EggMatches : last.content.body = Some(EggAt(p)))
        /\ (EggMatches = {} => last.content.body = None)
        /\ (Cardinality(EggMatches) >= 2 =>
               /\ last.content.body # None
               /\ \A p \in EggMatches : last.content.body # Some(EggAt(p)))

(***************************************************************************)
(* Properties of create_pterodactyl_server, checked under CreateSpec.      *)
(***************************************************************************)
CreateExecuted == last.appended /\ last.name = "create_pterodactyl_server"

\* The value of a configuration entry is absent or does not begin with a digit.
AbsentOrNotANumber(str) ==
    str = <<>> \/ Head(str) \notin {"0", "1", "2", "3", "4", "5", "6", "7", "8", "9"}

DefaultIdsUnusable ==
    \/ AbsentOrNotANumber(env.PTERODACTYL_DEFAULT_OWNER_ID)
    \/ AbsentOrNotANumber(env.PTERODACTYL_DEFAULT_NODE_ID)

\* C8 as stated: with the default owner id or the default node id absent or not a number, every
\* create invocation returns the configuration-error payload, calls no gateway function and
\* starts no monitor.
C8_Original ==
    CreateExecuted /\ DefaultIdsUnusable =>
        /\ last.content.error = "config"
        /\ last.calls = <<>>
        /\ last.monitor = None

\* C8: with the default owner id or the default node id absent or not a number, a create
\* invocation that carries an egg name returns the configuration-error payload, one that carries
\* none returns the payload of the exception of the dispatch, and neither calls a gateway
\* function (no catalog listing, no allocation lookup, no create request) nor starts a monitor.
C8_NoBackendCallWithoutDefaults ==
    CreateExecuted /\ DefaultIdsUnusable =>
        /\ last.content.error = IF last.args.egg_name # None THEN "config" ELSE "exception"
        /\ last.fail = IF last.args.egg_name # None THEN "config" ELSE "exception"
        /\ last.calls = <<>>
        /\ last.monitor = None
        /\ ~last.content.user_message

C8_Witness ==
    /\ CreateExecuted
    /\ env.PTERODACTYL_DEFAULT_OWNER_ID = <<"7">>
    /\ env.PTERODACTYL_DEFAULT_NODE_ID = <<"x">>
    /\ last.args.egg_name = Some(<<"V", "A">>)
    /\ last.content.error = "config"
    /\ last.calls = <<>>

\* The egg name, compared without regard to case, is the name of an egg of some nest the backend
\* can list, of the nest named by nestName when a nest is named.
EggListed(eggName, nestName) ==
    \E catalog \in Catalogs : \E n \in 1..Len(catalog) : \E j \in 1..Len(catalog[n].eggs) :
        /\ toLowerCase(catalog[n].eggs[j].name) = toLowerCase(eggName)
        /\ nestName = None \/ nestName[1] = <<>> \/ toLowerCase(catalog[n].name) = toLowerCase(nestName[1])

EggMissing ==
    /\ CreateExecuted
    /\ last.args.egg_name # None
    /\ ~EggListed(last.args.egg_name[1], last.args.nest_name)

Refused ==
    /\ last.content.error = "egg_not_found_cannot_create"
    /\ last.content.subject = last.args.egg_name[1]
    /\ CallsOf("findAvailableAllocation") = {}
    /\ CallsOf("createServer") = {}
    /\ CallsOf("getEggDetails") = {}
    /\ last.monitor = None
    /\ ~last.content.user_message

\* C9 as stated: a create invocation whose egg name is in no nest (or not in the named nest) is
\* refused with a payload naming the missing type, with no allocation lookup, no create request
\* and no monitor.
C9_Original == EggMissing => Refused

\* C9: when the default owner and node ids are configured, a create invocation whose egg name is
\* in no nest (or not in the named nest) is refused with a payload naming the missing type, with
\* no allocation lookup, no create request and no monitor.
C9_UnknownEggRefused == EggMissing /\ ConfiguredForCreation => Refused

C9_Witness ==
    /\ EggMissing
    /\ ConfiguredForCreation
    /\ last.args.egg_name = Some(<<"V", "A">>)
    /\ last.args.nest_name = Some(<<"z">>)
    /\ Refused
    /\ CallsOf("listNestsWithEggs") # {}
    /\ last.calls[1].http

\* The keys of the default variables an egg declares.
DefaultKeys(variables) == {variables[k].env_variable : k \in 1..Len(variables)}

\* C10: the environment of a create request holds exactly the keys of the egg's variables and of
\* the user's overrides; a key the user gave has the user's value, and any other key has the
\* default value of the egg's variable of that key.
C10_EnvironmentIsDefaultsOverlaid ==
    CreateExecuted =>
        \A c \in CallsOf("createServer") : \A d \in CallsOf("getEggDetails") :
            LET environment == last.calls[c].options[1].environment
                variables == last.calls[d].returned[1].variables
                overrides == IF last.args.environment_variables = None
                             THEN EmptyEnvironment
                             ELSE last.args.environment_variables[1]
            IN  /\ DOMAIN environment = DefaultKeys(variables) \cup DOMAIN overrides
                /\ \A key \in DOMAIN overrides : environment[key] = overrides[key]
                /\ \A k \in 1..Len(variables) :
                      variables[k].env_variable \notin DOMAIN overrides =>
                          environment[variables[k].env_variable] = variables[k].default_value

C10_Witness ==
    /\ CreateExecuted
    /\ last.monitor # None
    /\ last.args.environment_variables = Some(("K1" :> "u1") @@ ("K3" :> "u3"))
    /\ \E c \in CallsOf("createServer") :
          /\ last.calls[c].http
          /\ last.calls[c].options[1].environment = ("K1" :> "u1") @@ ("K2" :> "d2") @@ ("K3" :> "u3")

\* The createServer call of the invocation dispatched last returned a server.
ServerCreated == \E c \in CallsOf("createServer") : last.calls[c].returned # None

\* C12: a create invocation whose createServer call returned a server has started exactly one
\* monitor, that of the server returned, and one that failed before (configuration, egg
\* resolution, allocation, create call) or whose arguments did not parse has started none; an
\* invocation makes at most one createServer call.
C12_OneMonitorPerCreatedServer ==
    /\ Cardinality(CallsOf("createServer")) <= 1
    /\ Len(last.monitor) <= 1
    /\ (CreateExecuted /\ ServerCreated =>
           /\ Len(last.monitor) = 1
           /\ \A c \in CallsOf("createServer") :
                 last.monitor[1] = MonitorFor(last.calls[c].returned[1])
           /\ mon = StartedMonitor(last.monitor[1], mon.channel)
           /\ last.fail = "none")
    /\ (~(CreateExecuted /\ ServerCreated) =>
           /\ last.monitor = None
           /\ mon = NoMonitor)
    /\ (last.fail # "none" => mon = NoMonitor)

C12_Witness ==
    /\ CreateExecuted
    /\ ServerCreated
    /\ mon.pc = "install"
    /\ mon.phase = "Installing"
    /\ mon.serverUuid = "uuid-n"
    /\ mon.serverName = <<"n">>

\* C32: a create invocation whose allocation lookup returned nothing (none unassigned, or the
\* lookup failed) has an error payload, made no createServer call and started no monitor; one
\* whose lookup returned an allocation made one createServer call, whose options carry the id
\* of that allocation, unassigned in the lookup, the image and the startup command of the egg
\* resolved, and the configured default owner.
C32_CreateCarriesAFreeAllocation ==
    CreateExecuted =>
        \A a \in CallsOf("findAvailableAllocation") :
            IF last.calls[a].returned = None
            THEN /\ last.content.error = "no_allocation"
                 /\ last.fail # "none"
                 /\ CallsOf("createServer") = {}
                 /\ last.monitor = None
                 /\ mon = NoMonitor
            ELSE /\ Cardinality(CallsOf("createServer")) = 1
                 /\ ~last.calls[a].returned[1].assigned
                 /\ \A c \in CallsOf("createServer") : \A d \in CallsOf("getEggDetails") :
                       LET options == last.calls[c].options[1]
                           targetEgg == last.calls[d].returned[1]
                       IN  /\ c > a
                           /\ options.allocation.default = last.calls[a].returned[1].id
                           /\ options.docker_image = targetEgg.docker_image
                           /\ options.startup = targetEgg.startup
                           /\ options.egg = targetEgg.id
                           /\ options.user = PTERO_DEFAULT_OWNER_ID[1]

C32_Witness ==
    /\ CreateExecuted
    /\ ServerCreated
    /\ \E a \in CallsOf("findAvailableAllocation") : last.calls[a].returned = Some(Allocation(2, FALSE))
    /\ \E c \in CallsOf("createServer") :
          /\ last.calls[c].http
          /\ last.calls[c].options[1].allocation.default = 2
          /\ last.calls[c].options[1].docker_image = "image"

\* The lookup returned nothing and the invocation ended there.
LookupReturnedNothing ==
    /\ CreateExecuted
    /\ \E a \in CallsOf("findAvailableAllocation") : last.calls[a].http /\ last.calls[a].returned = None

\* One of the options createServer requires is missing, zero or empty.
Incomplete(options) ==
    \/ options.name = None
    \/ options.name = Some(<<>>)
    \/ options.user = 0
    \/ options.egg = 0
    \/ options.docker_image = ""
    \/ options.startup = ""
    \/ options.allocation.default = 0

\* C36: a createServer call whose options lack the name, the owner, the egg id, the image, the
\* startup command or the default allocation id issues no request and returns null; the
\* invocation then has the creation-failure error for payload and starts no monitor.  Checked
\* under ValidationSpec.
C36_IncompleteOptionsAreNotSent ==
    CreateExecuted =>
        /\ Cardinality(CallsOf("createServer")) = 1
        /\ \A c \in CallsOf("createServer") :
              Incomplete(last.calls[c].options[1]) =>
                  /\ ~last.calls[c].http
                  /\ last.calls[c].returned = None
                  /\ last.content.error = "create_failed"
                  /\ ~last.content.user_message
                  /\ last.fail # "none"
                  /\ last.monitor = None
                  /\ mon = NoMonitor
                  /\ messages[Len(messages)] = Message("tool", last.id, NoCalls)

C36_Witness ==
    /\ CreateExecuted
    /\ env.app
    /\ \E c \in CallsOf("createServer") :
          /\ last.calls[c].options[1].allocation.default = 0
          /\ last.calls[c].options[1].docker_image = "image"
          /\ ~last.calls[c].http
    /\ last.content.error = "create_failed"
    /\ mon = NoMonitor

\* Complete options are sent, and a server created from them has its monitor.
CompleteOptionsSent ==
    /\ CreateExecuted
    /\ \E c \in CallsOf("createServer") :
          /\ ~Incomplete(last.calls[c].options[1])
          /\ last.calls[c].http
    /\ mon.pc # "none"

(***************************************************************************)
(* Properties of the run and the monitor side by side, checked under       *)
(* TaskSpec.                                                               *)
(***************************************************************************)
MonitorInFlight == mon.pc \notin {"none", "done"}

\* C11: after a successful create invocation the run has its tool result appended and is never
\* held up by the monitor: whatever the monitor's position, the run's next step can be taken;
\* the run's answer is the one its last engine response determines, whatever the monitor does
\* or has done; and a monitor that has not ended can take its next step whether or not the run
\* has returned.
C11_RunDoesNotAwaitMonitor ==
    /\ (pc # "done" => ENABLED RunNext)
    /\ (MonitorInFlight => ENABLED MonNext)
    /\ (last.monitor # None =>
           /\ last.appended
           /\ pc \in {"batch", "call"}
           /\ messages[Len(messages)].role = "tool"
           /\ messages[Len(messages)].tool_call_id = last.id)
    /\ (pc = "done" =>
           result = IF last.fail = "engine" THEN Some(GenericApology) ELSE Some(FinalAnswer))
    /\ (mon.pc = "none" \/ Len(messages) >= 4)

C11_Witness ==
    /\ pc = "done"
    /\ result = Some(<<"u">>)
    /\ mon.pc = "install"
    /\ mon.phase = "Installing"
    /\ mon.elapsed = 0

(***************************************************************************)
(* Properties of the answer of a run that created a server, checked under  *)
(* AnswerSpec.                                                             *)
(***************************************************************************)
\* The run's create invocation was answered with the payload that carries a user_message: the
\* payload is built in the branch that starts the monitor, and in no other.
UserMessageInToolResult == mon.pc # "none"

\* C21 as stated, the user_message the engine's JSON text holds taken for that of the tool
\* result: a run one of whose tool results carried a user_message and which left the loop
\* returns that user_message.
C21_Original ==
    FinalReturned /\ UserMessageInToolResult =>
        result \in {Some(CreateUserMessage), Some(<<"u">>)}

\* C21: the payload of a create invocation carries a user_message exactly when a server was
\* created; it is appended as the tool result of the call; and the run that then leaves the loop
\* returns what the engine's final response determines: the fallback apology when it has no
\* text, the user_message of the text when the text is JSON holding one, and otherwise the text
\* without the white space around it.
C21_AnswerIsTheEnginesText ==
    /\ (last.appended => (last.content.user_message <=> last.monitor # None))
    /\ (last.appended => (last.content.user_message <=> ServerCreated))
    /\ (last.appended /\ last.content.user_message =>
           /\ UserMessageInToolResult
           /\ messages[Len(messages)].role = "tool"
           /\ messages[Len(messages)].tool_call_id = last.id)
    /\ (UserMessageInToolResult => Len(messages) = 4 /\ messages[4].role = "tool")
    /\ (FinalReturned /\ UserMessageInToolResult =>
           result = IF responseMessage.content = <<>> THEN Some(FallbackApology)
                    ELSE IF responseMessage.content = UserMessageJson THEN Some(<<"u">>)
                    ELSE Some(trim(responseMessage.content)))

C21_Witness ==
    /\ FinalReturned
    /\ UserMessageInToolResult
    /\ responseMessage.content = <<" ", "h", "i", " ">>
    /\ result = Some(<<"h", "i">>)

(***************************************************************************)
(* Properties of the message handler, checked under HandlerSpec.           *)
(***************************************************************************)
HandlerEnded == handler.pc = "done"

\* The message is not a bot's and mentions the bot.
Addressed == ~handler.bot /\ handler.mentioned

ApologyAttempted == \E k \in 1..Len(handler.attempts) : handler.attempts[k] = "apology"

\* C22 as stated: a handler that has ended for a non-bot message mentioning the bot has
\* delivered a reply or, a step having thrown, has at least attempted the error apology.
C22_Original ==
    HandlerEnded /\ Addressed => handler.delivered # <<>> \/ ApologyAttempted

\* C22: the handler of a non-bot message that mentions the bot ends, having called message.reply
\* at least once: first with Pong, the greeting, the answer, or the fallback message when the
\* run returned empty text.  When a reply of the answer or of the fallback message throws, the
\* error apology is attempted in a channel that is not DM-based, and in a DM channel nothing
\* more is sent.  The handler ends having delivered nothing only when a reply threw.  For a
\* message of a bot, or one that does not mention the bot, nothing is sent.
C22_HandlerAttemptsAReply ==
    /\ [](HandlerEnded /\ Addressed =>
              /\ handler.attempts # <<>>
              /\ handler.attempts[1] =
                     IF toLowerCase(userQuery) = Ping THEN "Pong"
                     ELSE IF userQuery = <<>> THEN "greeting"
                     ELSE IF result = Some(<<>>) THEN "fallback"
                     ELSE "answer"
              /\ (handler.delivered = <<>> => handler.thrown)
              /\ (ApologyAttempted <=>
                     handler.thrown /\ handler.channel # "dm" /\ handler.attempts[1] \in {"answer", "fallback"})
              /\ (handler.thrown /\ handler.channel = "dm" => ~ApologyAttempted)
              /\ (handler.attempts[1] \in {"answer", "fallback"} => pc = "done" /\ result # None))
    /\ [](~Addressed => handler.attempts = <<>> /\ pc = "idle")
    /\ <>HandlerEnded

C22_Witness ==
    /\ HandlerEnded
    /\ Addressed
    /\ handler.channel = "dm"
    /\ handler.attempts = <<"answer">>
    /\ handler.delivered = <<>>
    /\ result = Some(<<"h", "i">>)

\* processUserQueryWithLLM was called for the message.
RunStarted == pc # "idle"

\* The message is one the handler answers with a run: not from a bot, mentioning the bot, with
\* content after the mention that is not 'ping' in any case of letters.
ForTheRun ==
    /\ ~handler.bot
    /\ handler.mentioned
    /\ userQuery # <<>>
    /\ toLowerCase(userQuery) # Ping

\* C34: a run is started only for a message that is not from a bot, mentions the bot and has
\* content after the mention other than 'ping'; while no run is started there is no engine call,
\* no backend call and no monitor; a message from a bot or without the mention is not answered,
\* 'ping' is answered with one 'Pong!' and an empty mention with one greeting.
C34_RunOnlyForAddressedQueries ==
    /\ (RunStarted => ForTheRun)
    /\ (~RunStarted =>
           /\ llmCalls = 0
           /\ messages = <<>>
           /\ last = NoLast
           /\ mon = NoMonitor
           /\ result = None)
    /\ (~ForTheRun => handler.pc \in {"received", "ping", "greeting", "done"})
    /\ (handler.bot \/ ~handler.mentioned => handler.attempts = <<>>)
    /\ (HandlerEnded /\ ~ForTheRun /\ ~handler.bot /\ handler.mentioned =>
           handler.attempts = IF userQuery = <<>> THEN <<"greeting">> ELSE <<"Pong">>)

C34_Witness ==
    /\ HandlerEnded
    /\ ~handler.bot /\ handler.mentioned
    /\ userQuery = <<"P", "i", "n", "g">>
    /\ handler.delivered = <<"Pong">>
    /\ ~RunStarted

\* A run was started and made a backend call.
RunCalledBackend == RunStarted /\ ForTheRun /\ \E c \in 1..Len(last.calls) : last.calls[c].http

(***************************************************************************)
(* Properties of the splitting of an answer, checked under SplitSpec.      *)
(***************************************************************************)
RECURSIVE Concatenation(_)
Concatenation(texts) ==
    IF texts = <<>> THEN <<>> ELSE Head(texts) \o Concatenation(Tail(texts))

\* Every reply so far was delivered.
NothingThrown == ~handler.thrown

\* C35: while no reply throws, the replies delivered for an answer of more than 2000 characters
\* are non-empty texts of at most 1990 characters whose concatenation is the beginning of the
\* answer, and the whole answer once the handler has ended; an answer of at most 2000 characters
\* is delivered in exactly one reply, which is the answer when it is not empty.
C35_PartsRebuildTheAnswer ==
    NothingThrown =>
        LET llmResponse == result[1]
            sent == Concatenation(handler.delivered)
        IN  IF Len(llmResponse) > 2000
            THEN /\ handler.attempts = handler.delivered
                 /\ \A k \in 1..Len(handler.delivered) :
                       /\ handler.delivered[k] # <<>>
                       /\ Len(handler.delivered[k]) <= 1990
                 /\ sent = SubSeq(llmResponse, 1, Len(sent))
                 /\ (HandlerEnded => sent = llmResponse)
                 /\ (HandlerEnded => Len(handler.delivered) >= 2)
            ELSE /\ Len(handler.delivered) <= 1
                 /\ (HandlerEnded => Len(handler.delivered) = 1)
                 /\ (HandlerEnded /\ llmResponse # <<>> => handler.delivered = <<llmResponse>>)

C35_Witness ==
    /\ HandlerEnded
    /\ NothingThrown
    /\ Len(result[1]) = 3981
    /\ Len(handler.delivered) = 3
    /\ Len(handler.delivered[1]) = 1990
    /\ Len(handler.delivered[3]) = 1
    /\ handler.delivered[3] = <<3981>>

(***************************************************************************)
(* Properties of the monitor, checked under MonSpec.                       *)
(***************************************************************************)
MonitorEnded == mon.pc = "done"

TerminalPhases == {"Succeeded", "TimedOut", "Failed"}

\* C4, in the case most favourable to it (the channel is of a kind the monitor sends to, and no
\* send throws): a monitor never has sent two notifications, and when it has ended it has sent
\* exactly one.
C4_ExactlyOneNotification ==
    /\ Len(mon.sent) <= 1
    /\ (MonitorEnded /\ mon.channel /\ ~mon.thrown => Len(mon.sent) = 1)

\* A poll of phase 2 reported 'running' while less than the budget had elapsed.
RunningBeforeBudget == mon.runningAt # <<>> /\ mon.runningAt[1] < monitoringTimeoutMs

\* C5 as stated, for a monitor none of whose notifications threw: once ended it is in Succeeded
\* exactly when a resource poll of phase 2 reported 'running' before the budget had elapsed, and
\* in TimedOut exactly when the budget elapsed before any such report.
C5_Original ==
    MonitorEnded /\ ~mon.thrown =>
        /\ (mon.phase = "Succeeded" <=> RunningBeforeBudget)
        /\ (mon.phase = "TimedOut" <=> ~RunningBeforeBudget /\ mon.elapsed >= monitoringTimeoutMs)

\* C5: an ended monitor is in Succeeded exactly when a resource poll of phase 2, issued before the
\* budget had elapsed, reported 'running' (whenever the report arrived) and no notification threw;
\* it is in TimedOut exactly when no poll reported 'running' and no notification threw, and then
\* the budget has elapsed.
C5_SucceededIffRunningObserved ==
    /\ (mon.runningAt # <<>> =>
           mon.issuedAt < monitoringTimeoutMs /\ mon.issuedAt <= mon.runningAt[1])
    /\ (mon.runningAt # <<>> => MonitorEnded /\ mon.serverIsRunning)
    /\ (mon.phase = "TimedOut" => mon.elapsed >= monitoringTimeoutMs)
    /\ (MonitorEnded =>
           /\ mon.phase \in TerminalPhases
           /\ (mon.phase = "Succeeded" <=> mon.runningAt # <<>> /\ ~mon.thrown)
           /\ (mon.phase = "TimedOut" <=> mon.runningAt = <<>> /\ ~mon.thrown)
           /\ (mon.phase = "Failed" <=> mon.thrown))

C5_Witness ==
    /\ MonitorEnded
    /\ mon.phase = "Succeeded"
    /\ mon.runningAt = <<monitoringTimeoutMs>>
    /\ mon.issuedAt < monitoringTimeoutMs
    /\ mon.sent = <<"success">>

\* C6: the start signals sent equal in number the polls of phase 2 that reported 'offline', each
\* sent before the next poll; no signal of another kind is sent, none in the installing phase,
\* none on another state, none once the monitor has reached a terminal phase.
C6_OneStartPerOfflinePoll ==
    /\ mon.starts + (IF mon.pc = "signal" THEN 1 ELSE 0) = mon.offline
    /\ mon.otherSignals = 0
    /\ (mon.pc = "signal" => mon.phase = "AwaitingRunning" /\ mon.pending = "start")
    /\ (mon.phase = "Installing" => mon.starts = 0 /\ mon.offline = 0 /\ mon.pc # "signal")
    /\ (mon.phase \in TerminalPhases => MonitorEnded)
    /\ (mon.pc \in {"run", "runCheck", "signal"} => mon.phase = "AwaitingRunning")

C6_Witness ==
    /\ MonitorEnded
    /\ mon.phase = "Succeeded"
    /\ mon.offline = 2
    /\ mon.starts = 2

\* The steps of the phase: forward along Installing, AwaitingRunning, a terminal phase; the
\* installing phase may also end in TimedOut or Failed.
PhaseStep ==
    \/ mon.phase' = mon.phase
    \/ mon.phase = "Installing" /\ mon.phase' \in {"AwaitingRunning", "TimedOut", "Failed"}
    \/ mon.phase = "AwaitingRunning" /\ mon.phase' \in TerminalPhases

\* A step in which the monitor asks for the live resources of the server.
ResourcePollStep == mon.pc = "run" /\ mon.pc' # "run" /\ mon.elapsed < monitoringTimeoutMs

PollsInOrder ==
    /\ (mon.phase = "AwaitingRunning" \/ mon.phase = "Succeeded" => mon.listedInstalled)
    /\ (mon.pc \in {"run", "signal", "runCheck"} => mon.listedInstalled /\ mon.phase = "AwaitingRunning")
    /\ (mon.pc \in {"install", "installCheck"} => mon.phase = "Installing" /\ ~mon.listedInstalled)
    /\ (~mon.listedInstalled => mon.offline = 0 /\ mon.starts = 0 /\ mon.runningAt = <<>>)

\* C19 as stated, in what it says of the states of a monitor: live resources are polled only
\* once a listing has shown the server with its installing flag cleared, and a monitor that has
\* ended without a listing having shown that is in TimedOut, the budget being exceeded.
C19_Original ==
    /\ PollsInOrder
    /\ (MonitorEnded /\ ~mon.listedInstalled =>
           mon.phase = "TimedOut" /\ mon.elapsed >= monitoringTimeoutMs)

\* C19: the phase only moves forward; live resources are polled only once a listing has shown
\* the server with its installing flag cleared; every monitor ends; and a monitor whose listings
\* never show that ends with the budget exceeded, in TimedOut, or in Failed when its time-out
\* notification threw.
C19_PhaseMovesForward ==
    /\ [][PhaseStep]_vars
    /\ [][ResourcePollStep => mon.listedInstalled]_vars
    /\ [](PollsInOrder)
    /\ [](MonitorEnded /\ ~mon.listedInstalled =>
              /\ mon.elapsed >= monitoringTimeoutMs
              /\ mon.phase = IF mon.thrown THEN "Failed" ELSE "TimedOut")
    /\ <>MonitorEnded

C19_Witness ==
    /\ MonitorEnded
    /\ ~mon.listedInstalled
    /\ mon.phase = "TimedOut"
    /\ mon.sent = <<"install_timeout">>
    /\ mon.elapsed >= monitoringTimeoutMs

\* C20: a monitor in which a send has thrown is in Failed and has ended; it has attempted the
\* failure notice exactly once, delivered or not, and nothing else after the throw; a monitor in
\* which nothing has thrown has attempted none and is not in Failed; and a monitor that has
\* ended takes no further step.
C20_ThrowMovesToFailed ==
    /\ (mon.thrown =>
           /\ mon.phase = "Failed"
           /\ MonitorEnded
           /\ mon.channel
           /\ mon.failureNotices = 1
           /\ mon.sent \in {<<>>, <<"failure">>})
    /\ (~mon.thrown => mon.failureNotices = 0 /\ mon.phase # "Failed")
    /\ (MonitorEnded => ~ENABLED MonNext)

C20_Witness ==
    /\ mon.thrown
    /\ mon.phase = "Failed"
    /\ mon.sent = <<"failure">>
    /\ mon.starts = 1
    /\ mon.runningAt # <<>>

\* The steps in which the monitor issues a request to the panel: listServers, getServerResources,
\* sendPowerSignal.
ListingPolled ==
    mon.pc = "install" /\ (mon.pc' = "installCheck" \/ mon.isStillInstalling' # mon.isStillInstalling)

ResourcesPolled ==
    mon.pc = "run" /\ (mon.pc' \in {"signal", "runCheck"} \/ mon.serverIsRunning')

SignalSent == mon.pc = "signal" /\ mon.pc' # "signal"

\* C24 as stated, in what it says of the requests: no listing poll, resource poll or power
\* signal is issued once the elapsed time has reached the budget.
C24_Original ==
    [][ListingPolled \/ ResourcesPolled \/ SignalSent => mon.elapsed < monitoringTimeoutMs]_vars

\* C24: every monitor ends, in a terminal phase: in Succeeded only after a poll reported
\* 'running', in Failed only after a send threw, and otherwise in TimedOut with the budget
\* reached; until then it goes on.  No listing poll and no resource poll is issued once the
\* elapsed time has reached the budget; a start signal is sent only on a resource poll issued
\* before the budget, at most the latency of that poll later, be it after the budget.
C24_MonitorStopsOnBudget ==
    /\ <>MonitorEnded
    /\ [](MonitorInFlight => ENABLED MonNext)
    /\ [](MonitorEnded =>
             /\ mon.phase \in TerminalPhases
             /\ (mon.phase = "Succeeded" => mon.runningAt # <<>> /\ mon.serverIsRunning)
             /\ (mon.phase = "Failed" => mon.thrown)
             /\ (mon.phase = "TimedOut" => mon.elapsed >= monitoringTimeoutMs /\ ~mon.serverIsRunning))
    /\ [][ListingPolled \/ ResourcesPolled => mon.elapsed < monitoringTimeoutMs]_vars
    /\ [][SignalSent =>
             /\ mon.pending = "start"
             /\ mon.issuedAt < monitoringTimeoutMs
             /\ mon.elapsed - mon.issuedAt \in Latencies]_vars

C24_Witness ==
    /\ mon.pc = "runCheck"
    /\ mon.starts = 1
    /\ mon.issuedAt = monitoringTimeoutMs - 5000
    /\ mon.elapsed >= monitoringTimeoutMs + resourcePollDelayMs

\* The monitor has observed installing, installed, offline, starting, running, in this order.
ScenarioObserved == mon.scenario = 5

TurnTaken == mon.pc \in {"install", "run", "signal"} /\ mon'.pc # mon.pc

\* The delay of the phase the monitor is in.
PollDelay == IF mon.pc = "install" THEN initialPollDelayMs ELSE resourcePollDelayMs

\* C30 as stated: however the outage ends, the monitor is never in Failed, and once ended it
\* is in TimedOut.
C30_Original ==
    /\ mon.phase # "Failed"
    /\ (MonitorEnded => mon.phase = "TimedOut")

\* C30: an empty listing, absent resources and a refused start signal neither end the
\* monitor nor move it to Failed: after each the monitor sleeps the delay of its phase and,
\* the budget not being reached, polls again; it ends only when the budget is reached, in
\* TimedOut, or in Failed when the sending of the time-out notice throws.
C30_OutageEndsAtBudget ==
    /\ <>MonitorEnded
    /\ [](~MonitorEnded => mon.phase \in {"Installing", "AwaitingRunning"} /\ ~mon.thrown)
    /\ [](MonitorEnded =>
             /\ mon.elapsed >= monitoringTimeoutMs
             /\ mon.phase = IF mon.thrown THEN "Failed" ELSE "TimedOut"
             /\ ~mon.serverIsRunning
             /\ \A k \in 1..Len(mon.sent) : mon.sent[k] \in {"install_timeout", "run_timeout", "failure"})
    /\ [][TurnTaken /\ WithinBudget(mon.elapsed) /\ mon.pc # "signal" =>
             /\ mon'.pc \in {"installCheck", "runCheck"}
             /\ mon'.elapsed - mon.elapsed \in {PollDelay + latency : latency \in Latencies}]_vars
    /\ [][TurnTaken /\ mon.pc = "signal" =>
             /\ mon'.pc = "runCheck"
             /\ mon'.starts = mon.starts + 1
             /\ mon'.elapsed - mon.elapsed \in {PollDelay + latency : latency \in Latencies}]_vars
    /\ [][mon.pc \in {"installCheck", "runCheck"} /\ WithinBudget(mon.elapsed) =>
             mon'.pc = (IF mon.pc = "installCheck" THEN "install" ELSE "run")]_vars

\* The outage began after an 'offline' report: the start signal was refused, every poll that
\* followed found no resources, and the monitor gave up at the budget with its notice.
C30_Witness ==
    /\ MonitorEnded
    /\ mon.phase = "TimedOut"
    /\ mon.starts = 1
    /\ mon.offline = 1
    /\ mon.sent = <<"run_timeout">>
    /\ mon.elapsed >= monitoringTimeoutMs

====
